---- MODULE Spec2Model ----
(***************************************************************************)
(* Flat-list extension for Tiptap/ProseMirror: list items are sibling      *)
(* blocks carrying an integer indent.  The module models the document, the *)
(* commands of FlatListCore (indent, dedent), the postprocessor plugin     *)
(* that renumbers ordered items after every transaction, and the paste     *)
(* plugin that renormalises the indents of a pasted slice.                 *)
(*                                                                         *)
(* A document is a sequence of top-level blocks.  A block is a record      *)
(*   type    : "paragraph" | "ordered" | "unordered" | "task"              *)
(*   indent  : attrs.indent   (absent on a paragraph: kept at the default) *)
(*   counter : attrs.counter  (ordered only; default 1 elsewhere)          *)
(*   checked : attrs.checked  (task only; default FALSE elsewhere)         *)
(*   prop    : attrs._isTempPropped                                        *)
(*   content : the inline content, a sequence of characters; NBSP is the   *)
(*             propping character, every other character is an opaque id.  *)
(***************************************************************************)
EXTENDS Integers, Sequences, FiniteSets, TLC

VARIABLES
  doc,    \* the editor's document (state.doc), or the document given to a pass
  last,   \* the operation that produced this state, with its inputs and result
  slice   \* the pasted slice's top-level nodes (slice.content)

vars == <<doc, last, slice>>

-----------------------------------------------------------------------------
(* Bounds of the model.                                                    *)

TabLen == 3       \* blocks of an initial document of SpecTab
TabIndent == 2    \* largest indent of an initial document of SpecTab
StepLen == 4      \* blocks of a document of SpecTabStep
StepIndent == 2   \* largest indent of a document of SpecTabStep
MaxLen == 2       \* blocks of a document of Spec (Enter stops adding there)
MaxIndent == 2    \* largest indent of an initial document, or given to Set, in Spec
EditLen == 2      \* blocks of a document of SpecEdit
EditIndent == 1   \* largest indent of a document, or given to Set, in SpecEdit
MarkLen == 3       \* blocks of a document of SpecMarks
MarkIndent == 2    \* largest indent of a document of SpecMarks
NestLen == 2       \* blocks at the top level of a document of SpecNested
InnerLen == 2      \* children of a container in SpecNested
NestIndent == 1    \* largest indent of an item in SpecNested
CommitLen == 2     \* nodes of a pasted slice in SpecPasteCommit
CommitRaw == 1     \* largest indent of a node or of the target in SpecPasteCommit
AttrLen == 3       \* characters of a data-list-indent attribute in SpecImport
ChainLen == 3      \* ancestors of an li in SpecImport
SessLen == 3       \* blocks of a document of SpecSession
SessIndent == 1    \* largest indent of an initial document of SpecSession
SessRaw == 1       \* largest raw indent, of either sign, of a pasted node in SpecSession
ExportLen == 3     \* blocks of a document of SpecExport
ExportIndent == 2  \* largest indent of a document of SpecExport
TwiceLen == 3      \* blocks of a document of SpecTabTwice
TwiceIndent == 2   \* largest indent of a document of SpecTabTwice
RepeatLen == 2     \* blocks of a document of SpecRepeat
RepeatIndent == 2  \* largest indent of a document of SpecRepeat
TaskAttrLen == 4    \* characters of a data-task-list attribute in SpecClassify
PostLen == 3      \* blocks of a document of SpecPost
PostIndent == 2   \* largest indent of a document of SpecPost
PasteLen == 3     \* top-level nodes of a pasted slice
PasteRaw == 5     \* largest raw indent of a pasted list item
PasteIndent == 2  \* largest indent of the list item pasted into
SetLen == 2       \* blocks of a document of SpecSetStep
KeyLen == 2       \* blocks of a document of SpecKeyStep
KeyIndent == 2    \* largest indent of a document of SpecKeyStep
FoldLen == 3      \* blocks of a document of SpecFold
FoldIndent == 2   \* largest indent of a document of SpecFold
ToggleLen == 2    \* blocks of a document of SpecToggleTwice
ToggleIndent == 1 \* largest indent of SpecToggleTwice

-----------------------------------------------------------------------------
(* Nodes.                                                                  *)

NBSP == 0

ListTypes == {"ordered", "unordered", "task"}

Max(a, b) == IF a >= b THEN a ELSE b
Min(a, b) == IF a <= b THEN a ELSE b

\* list-type.ts: isFlatListNode
isFlatListNode(node) == node.type \in ListTypes

\* A node of the given type; attributes the type does not declare stay at
\* the value used for "absent".
MkNode(type, indent, counter, checked, prop, content) ==
  [type    |-> type,
   indent  |-> IF type \in ListTypes THEN indent ELSE 0,
   counter |-> IF type = "ordered" THEN counter ELSE 1,
   checked |-> IF type = "task" THEN checked ELSE FALSE,
   prop    |-> IF type \in ListTypes THEN prop ELSE FALSE,
   content |-> content]

\* Mutant: the paragraph is a new, empty one.
ToParagraphEmpty(node) == MkNode("paragraph", 0, 1, FALSE, FALSE, <<>>)

\* state.schema.nodes["paragraph"] with the content of `node`
\* (tr.setNodeMarkup(pos, paragraph): default attrs, content kept).
ToParagraph(node) == MkNode("paragraph", 0, 1, FALSE, FALSE, node.content)

\* A block of the host schema that holds blocks, such as a blockquote: not
\* a flat list node, and its children are nodes of the document at depth 2.
Container(children) ==
  [type |-> "blockquote", indent |-> 0, counter |-> 1, checked |-> FALSE,
   prop |-> FALSE, content |-> <<>>, children |-> children]

isContainer(node) == node.type = "blockquote"

RECURSIVE fragmentSize(_)
\* The size of a sequence of textblocks.
fragmentSize(nodes) ==
  IF nodes = <<>> THEN 0
  ELSE Len(Head(nodes).content) + 2 + fragmentSize(Tail(nodes))

\* node.nodeSize: the node's content plus the two boundary tokens.
nodeSize(node) ==
  IF isContainer(node) THEN fragmentSize(node.children) + 2
  ELSE Len(node.content) + 2

RECURSIVE posOf(_, _)
\* The position just before child i of the document.
posOf(d, i) == IF i <= 1 THEN 0 ELSE posOf(d, i - 1) + nodeSize(d[i - 1])

-----------------------------------------------------------------------------
(* flatListPostprocessorPlugin.appendTransaction                           *)

\* lastCounters is a JavaScript array: index 0 is element 1 here, and a hole
\* or an index past the end reads as undefined, which `?? 0` turns into 0.
ArrGet(a, i) == IF i + 1 <= Len(a) THEN a[i + 1] ELSE 0

\* lastCounters[i] = v (the array grows, leaving holes, when i >= length)
ArrSet(a, i, v) ==
  [k \in 1..Max(Len(a), i + 1) |->
     IF k = i + 1 THEN v ELSE IF k <= Len(a) THEN a[k] ELSE 0]

\* lastCounters.length = n
ArrSetLength(a, n) == [k \in 1..n |-> IF k <= Len(a) THEN a[k] ELSE 0]

\* const counterValue = (lastCounters[indent] ?? 0) + 1
CounterValue(lastCounters, indent) == ArrGet(lastCounters, indent) + 1

\* Mutant: the records of deeper indents survive an ordered item.
OrderedRecordKeepDeeper(lastCounters, indent, counterValue) ==
  ArrSet(lastCounters, indent, counterValue)

\* lastCounters[indent] = counterValue; lastCounters.length = indent + 1
OrderedRecord(lastCounters, indent, counterValue) ==
  ArrSetLength(ArrSet(lastCounters, indent, counterValue), indent + 1)

\* Mutant: a non-ordered item keeps the record of its own level.
NonOrderedRecordKeepLevel(lastCounters, indent) == ArrSetLength(lastCounters, indent + 1)

\* Mutant: an item that is not ordered resets no counter.
NonOrderedRecordNoReset(lastCounters, indent) == lastCounters

\* Non-ordered list block: lastCounters.length = indent
NonOrderedRecord(lastCounters, indent) == ArrSetLength(lastCounters, indent)

\* Not a list block: lastCounters = []
NonListRecord == <<>>

\* Mutant: the marker of a propped item is left set.
ClearMarkerKeep(attrs) == attrs

\* Mutant: the new attributes are built without the item's other attributes.
ClearMarkerDropsChecked(attrs) == [attrs EXCEPT !.prop = FALSE, !.checked = FALSE]

\* nodeAttrs = { ...nodeAttrs, _isTempPropped: undefined }
ClearMarker(attrs) == [attrs EXCEPT !.prop = FALSE]

\* tr.delete(pos, pos + 1) for a position inside a textblock's content: the
\* character at that position goes.  A position on a block boundary (a
\* propped item without content) has nothing to delete inside the block.
DeleteChar(d, pos) ==
  IF \E k \in 1..Len(d) :
       /\ posOf(d, k) + 1 <= pos
       /\ pos < posOf(d, k) + 1 + Len(d[k].content)
  THEN LET k == CHOOSE k \in 1..Len(d) :
                  /\ posOf(d, k) + 1 <= pos
                  /\ pos < posOf(d, k) + 1 + Len(d[k].content)
           off == pos - posOf(d, k)
           c == d[k].content
       IN [d EXCEPT ![k].content =
             SubSeq(c, 1, off - 1) \o SubSeq(c, off + 1, Len(c))]
  ELSE d

RECURSIVE DeleteAll(_, _)
\* for (const pos of toDelete) tr.delete(pos, pos + 1)
DeleteAll(d, positions) ==
  IF positions = <<>> THEN d
  ELSE DeleteAll(DeleteChar(d, Head(positions)), Tail(positions))

\* Mutant: the positions are deleted in document order.
ReverseNot(s) == s

\* toDelete.reverse()
Reverse(s) == [k \in 1..Len(s) |-> s[Len(s) + 1 - k]]

\* lastCounters[i] for a negative i reads a property of the array object,
\* not an element: props[k] is the property named -k, 0 when it is not set.
PropGet(props, i) == IF 0 - i <= Len(props) THEN props[0 - i] ELSE 0

\* lastCounters[i] = v for a negative i
PropSet(props, i, v) ==
  [k \in 1..Max(Len(props), 0 - i) |->
     IF k = 0 - i THEN v ELSE IF k <= Len(props) THEN props[k] ELSE 0]

\* lastCounters.length = indent + 1, or = indent after an item that is not
\* ordered
NewLength(ordered, indent) == IF ordered THEN indent + 1 ELSE indent

RECURSIVE PostScan(_, _, _)
\* newState.doc.descendants(...): one visit per child of the document, in
\* order.  st.tr is tr.doc, st.counters / st.markers the children rewritten.
\* Setting the array's length to a negative number throws a RangeError,
\* which ends the scan (st.thrown).
PostScan(d, i, st) ==
  IF i > Len(d) \/ st.thrown THEN st
  ELSE
    LET node == d[i]
        pos == posOf(d, i)
    IN
    IF isFlatListNode(node) /\ NewLength(node.type = "ordered", node.indent) < 0
    THEN [st EXCEPT !.thrown = TRUE]
    ELSE IF isFlatListNode(node) THEN
      LET indent == node.indent
          ordered == node.type = "ordered"
          counterValue == IF indent < 0 THEN PropGet(st.props, indent) + 1
                          ELSE CounterValue(st.lastCounters, indent)
          rewrite == ordered /\ node.counter # counterValue
          attrs1 == IF rewrite THEN [node EXCEPT !.counter = counterValue]
                    ELSE node
          propped == attrs1.prop
          attrs2 == IF propped THEN ClearMarker(attrs1) ELSE attrs1
      IN PostScan(d, i + 1,
           [tr           |-> [st.tr EXCEPT ![i] = attrs2],
            lastCounters |-> IF indent < 0
                             THEN ArrSetLength(st.lastCounters, NewLength(ordered, indent))
                             ELSE IF ordered
                             THEN OrderedRecord(st.lastCounters, indent, counterValue)
                             ELSE NonOrderedRecord(st.lastCounters, indent),
            props        |-> IF indent < 0 THEN PropSet(st.props, indent, counterValue)
                             ELSE st.props,
            thrown       |-> FALSE,
            toDelete     |-> IF propped THEN Append(st.toDelete, pos + 1)
                             ELSE st.toDelete,
            counters     |-> IF rewrite THEN st.counters \cup {i} ELSE st.counters,
            markers      |-> IF propped THEN st.markers \cup {i} ELSE st.markers,
            updated      |-> st.updated \/ rewrite \/ propped])
    ELSE
      PostScan(d, i + 1, [st EXCEPT !.lastCounters = NonListRecord, !.props = <<>>])

\* appendTransaction(_transactions, _oldState, newState): the document of
\* the returned transaction (doc), whether one is returned (updated), and
\* what the pass rewrote; or that it threw, and then there is none.
Postprocess(d) ==
  LET st == PostScan(d, 1,
              [tr |-> d, lastCounters |-> <<>>, props |-> <<>>, thrown |-> FALSE,
               toDelete |-> <<>>,
               counters |-> {}, markers |-> {}, updated |-> FALSE])
  IN IF st.thrown
     THEN [doc |-> d, updated |-> FALSE, counters |-> {}, markers |-> {},
           toDelete |-> <<>>, thrown |-> TRUE]
     ELSE [doc      |-> DeleteAll(st.tr, Reverse(st.toDelete)),
           updated  |-> st.updated \/ st.toDelete # <<>>,
           counters |-> st.counters,
           markers  |-> st.markers,
           toDelete |-> st.toDelete,
           thrown   |-> FALSE]

\* The pass on this document throws: the transaction it was appended to is
\* not applied.
Throws(d) == Postprocess(d).thrown

\* The document after a dispatched transaction: the plugin's transaction is
\* appended to it.
Commit(d) == Postprocess(d).doc

-----------------------------------------------------------------------------
(* FlatListCore commands: indentFlatListItem, dedentFlatListItem           *)

\* Mutant: the bound is the parent's indent plus 2.
IndentAllowedLoose(newIndent, prevSiblingIndent) ==
  newIndent <= prevSiblingIndent + 2

\* if (newIndent <= prevSiblingIndent + 1)
IndentAllowed(newIndent, prevSiblingIndent) ==
  newIndent <= prevSiblingIndent + 1

\* Mutant: the previous sibling is read in state.doc, without the changes
\* staged so far.
PrevSiblingIndentStale(orig, tr, i) ==
  IF i > 1 /\ isFlatListNode(orig[i - 1]) THEN orig[i - 1].indent ELSE -1

\* prevSiblingIndent: the previous sibling is resolved in tr.doc
PrevSiblingIndent(orig, tr, i) ==
  IF i > 1 /\ isFlatListNode(tr[i - 1]) THEN tr[i - 1].indent ELSE -1

RECURSIVE IndentScan(_, _, _, _, _)
\* state.doc.nodesBetween(from, to, ...): the blocks from..to of state.doc
\* (orig), in order; tr is tr.doc with the changes staged so far.
IndentScan(orig, tr, i, to, applicable) ==
  IF i > to THEN [doc |-> tr, ok |-> applicable]
  ELSE
    LET node == orig[i] IN
    IF isFlatListNode(node) THEN
      LET newIndent == node.indent + 1
          prevSiblingIndent == PrevSiblingIndent(orig, tr, i)
      IN IF IndentAllowed(newIndent, prevSiblingIndent)
         THEN IndentScan(orig, [tr EXCEPT ![i].indent = newIndent], i + 1, to, TRUE)
         ELSE IndentScan(orig, tr, i + 1, to, applicable)
    ELSE IndentScan(orig, tr, i + 1, to, applicable)

\* indentFlatListItem() on a selection overlapping blocks from..to
indentFlatListItem(d, from, to) == IndentScan(d, d, from, to, FALSE)

NoLastDedented == [idx |-> 0, oldIndent |-> 0]

\* Mutant: the indent recorded is the one the item has after the dedent.
LastDedentedNewIndent(applicable, lastDedented, i, indent) ==
  IF applicable THEN [idx |-> i, oldIndent |-> Max(indent - 1, 0)] ELSE lastDedented

\* if (applicable) { lastDedented = { pos, oldIndent: indent, node } }
LastDedented(applicable, lastDedented, i, indent) ==
  IF applicable THEN [idx |-> i, oldIndent |-> indent] ELSE lastDedented

\* Mutant: every list item of the selection makes the command applicable.
DedentAppliesAlways(indent, canConvert) == TRUE

\* applicable = true: the item is dedented or converted
DedentApplies(indent, canConvert) == indent > 0 \/ canConvert

\* Mutant: an item at indent 0 is converted whatever canConvert is.
DedentedConvertsAlways(node, canConvert) ==
  IF node.indent > 0 THEN [node EXCEPT !.indent = node.indent - 1]
  ELSE ToParagraph(node)

\* Mutant: an indented item goes to indent 0 at once.
DedentedToZero(node, canConvert) ==
  IF node.indent > 0 THEN [node EXCEPT !.indent = 0]
  ELSE IF canConvert THEN ToParagraph(node)
  ELSE node

\* The node after tr.setNodeAttribute(pos, "indent", indent - 1) or
\* tr.setNodeMarkup(pos, paragraph), or as it was.
Dedented(node, canConvert) ==
  IF node.indent > 0 THEN [node EXCEPT !.indent = node.indent - 1]
  ELSE IF canConvert THEN ToParagraph(node)
  ELSE node

RECURSIVE DedentScan(_, _, _, _, _, _, _)
DedentScan(orig, tr, i, to, canConvert, applicable, lastDedented) ==
  IF i > to THEN [doc |-> tr, ok |-> applicable, lastDedented |-> lastDedented]
  ELSE
    LET node == orig[i] IN
    IF isFlatListNode(node) THEN
      LET indent == node.indent
          tr1 == [tr EXCEPT ![i] = Dedented(node, canConvert)]
          applicable1 == applicable \/ DedentApplies(indent, canConvert)
      IN DedentScan(orig, tr1, i + 1, to, canConvert, applicable1,
                    LastDedented(applicable1, lastDedented, i, indent))
    ELSE DedentScan(orig, tr, i + 1, to, canConvert, applicable, lastDedented)

\* Mutant: the cascade leaves the siblings one level deeper alone.
CascadeStopsEarly(indent, oldIndent) == indent <= oldIndent + 1

\* if (indent <= lastDedented.oldIndent) break
CascadeStops(indent, oldIndent) == indent <= oldIndent

RECURSIVE DedentCascade(_, _, _, _)
\* The loop over the siblings after lastDedented; parent is
\* $lastDedented.parent, resolved in tr.doc before the loop.
DedentCascade(parent, tr, index, oldIndent) ==
  IF index > Len(parent) THEN tr
  ELSE
    LET subsequentItem == parent[index] IN
    IF ~isFlatListNode(subsequentItem) THEN tr
    ELSE IF CascadeStops(subsequentItem.indent, oldIndent) THEN tr
    ELSE DedentCascade(parent,
                       [tr EXCEPT ![index].indent = subsequentItem.indent - 1],
                       index + 1, oldIndent)

\* dedentFlatListItem(canConvert) on a selection overlapping blocks from..to
dedentFlatListItem(d, from, to, canConvert) ==
  LET s == DedentScan(d, d, from, to, canConvert, FALSE, NoLastDedented) IN
  IF ~s.ok THEN [doc |-> d, ok |-> FALSE]
  ELSE [doc |-> DedentCascade(s.doc, s.doc, s.lastDedented.idx + 1,
                              s.lastDedented.oldIndent),
        ok  |-> TRUE]

-----------------------------------------------------------------------------
(* FlatListCore commands: setFlatListItem, toggleFlatListItem              *)

\* The `attributes` argument: each attribute is given or undefined.  A
\* caller gives indent and checked; counter and _isTempPropped come along
\* only when toggleFlatListItem copies the attributes of the current node.
NoAttrs ==
  [hasIndent |-> FALSE, indent |-> 0, hasChecked |-> FALSE, checked |-> FALSE,
   hasCounter |-> FALSE, counter |-> 1, hasProp |-> FALSE, prop |-> FALSE]

\* node.attrs of a node, as an `attributes` object
AttrsOf(node) ==
  [hasIndent  |-> node.type \in ListTypes, indent  |-> node.indent,
   hasChecked |-> node.type = "task",      checked |-> node.checked,
   hasCounter |-> node.type = "ordered",   counter |-> node.counter,
   hasProp    |-> node.type \in ListTypes, prop    |-> node.prop]

\* { ...a, ...b }
Spread(a, b) ==
  [hasIndent  |-> a.hasIndent \/ b.hasIndent,
   indent     |-> IF b.hasIndent THEN b.indent ELSE a.indent,
   hasChecked |-> a.hasChecked \/ b.hasChecked,
   checked    |-> IF b.hasChecked THEN b.checked ELSE a.checked,
   hasCounter |-> a.hasCounter \/ b.hasCounter,
   counter    |-> IF b.hasCounter THEN b.counter ELSE a.counter,
   hasProp    |-> a.hasProp \/ b.hasProp,
   prop       |-> IF b.hasProp THEN b.prop ELSE a.prop]

\* Mutant: the indent of a list node is not preserved.
attrsFnDropIndent(listType, attributes, oldNode) == attributes

\* Mutant: checked is not preserved on a task item.
attrsFnDropChecked(listType, attributes, oldNode) ==
  IF isFlatListNode(oldNode) /\ ~attributes.hasIndent
  THEN [attributes EXCEPT !.hasIndent = TRUE, !.indent = oldNode.indent]
  ELSE attributes

\* attrsFn(oldNode) of setFlatListItem
attrsFn(listType, attributes, oldNode) ==
  IF isFlatListNode(oldNode)
  THEN LET a1 == IF ~attributes.hasIndent
                 THEN [attributes EXCEPT !.hasIndent = TRUE, !.indent = oldNode.indent]
                 ELSE attributes
       IN IF listType = "task" /\ oldNode.type = "task" /\ ~attributes.hasChecked
          THEN [a1 EXCEPT !.hasChecked = TRUE, !.checked = oldNode.checked]
          ELSE a1
  ELSE attributes

\* type.create(attrs, node.content): an attribute that is not given takes
\* the default of the node type (indent 0, counter 1, checked false,
\* _isTempPropped false).
CreateNode(type, attrs, content) ==
  MkNode(type,
         IF attrs.hasIndent THEN attrs.indent ELSE 0,
         IF attrs.hasCounter THEN attrs.counter ELSE 1,
         IF attrs.hasChecked THEN attrs.checked ELSE FALSE,
         IF attrs.hasProp THEN attrs.prop ELSE FALSE,
         content)

\* setFlatListItem(listType, attributes) on a selection overlapping blocks
\* from..to: setBlockType(type, attrsFn) gives every textblock of the range
\* the list type, with the attributes attrsFn computes from the old node.
setFlatListItem(d, from, to, listType, attributes) ==
  [doc |-> [i \in 1..Len(d) |->
              IF i \in from..to
              THEN CreateNode(listType, attrsFn(listType, attributes, d[i]), d[i].content)
              ELSE d[i]],
   ok  |-> TRUE]

\* objectIncludes(node.attrs, attributes): every given attribute is an
\* attribute of the node with that value.
AttrsInclude(node, attributes) ==
  /\ attributes.hasIndent => (node.type \in ListTypes /\ node.indent = attributes.indent)
  /\ attributes.hasChecked => (node.type = "task" /\ node.checked = attributes.checked)

\* Mutant: a node is active only when the indent is among the attributes.
isNodeActiveStrict(d, from, to, listType, attributes) ==
  \A i \in from..to :
    d[i].type = listType /\ attributes.hasIndent /\ AttrsInclude(d[i], attributes)

\* isNodeActive(state, type, attributes): the selection is covered by nodes
\* of the type whose attributes include the given ones.
isNodeActive(d, from, to, listType, attributes) ==
  \A i \in from..to : d[i].type = listType /\ AttrsInclude(d[i], attributes)

\* toggleFlatListItem(listType, attributes) on a selection overlapping
\* blocks from..to; anchor and head have the same parent iff from = to.
toggleFlatListItem(d, from, to, listType, attributes) ==
  LET attributesToCopy == IF from = to THEN AttrsOf(d[from]) ELSE NoAttrs IN
  IF isNodeActive(d, from, to, listType, attributes)
  THEN \* commands.setNode(toggleType, attributesToCopy)
       [doc |-> [i \in 1..Len(d) |-> IF i \in from..to THEN ToParagraph(d[i]) ELSE d[i]],
        ok  |-> TRUE]
  ELSE setFlatListItem(d, from, to, listType, Spread(attributesToCopy, attributes))

-----------------------------------------------------------------------------
(* Key handlers: handleEnter, handleBackspace, handleDelete.  The cursor   *)
(* is collapsed in block i at parentOffset off.                            *)

InsertAt(d, i, node) == SubSeq(d, 1, i - 1) \o <<node>> \o SubSeq(d, i, Len(d))

\* Mutant: the joined block keeps the second one's type and attrs.
JoinAtKeepsSecond(d, i) ==
  SubSeq(d, 1, i - 1)
    \o <<[d[i + 1] EXCEPT !.content = d[i].content \o d[i + 1].content]>>
    \o SubSeq(d, i + 2, Len(d))

\* deleteRange over the boundary between blocks i and i + 1: the two
\* textblocks are joined, the result keeps the first one's type and attrs.
JoinAt(d, i) ==
  SubSeq(d, 1, i - 1)
    \o <<[d[i] EXCEPT !.content = d[i].content \o d[i + 1].content]>>
    \o SubSeq(d, i + 2, Len(d))

NotHandled(d) == [doc |-> d, ok |-> FALSE]

\* Mutant: the new item always comes after the current one.
NewItemIndexAfter(i, off) == i + 1

\* The index of the new item: insertContentAt(to - 1, newItem) with the
\* cursor at the start, insertContent(newItem) with the cursor at the end.
NewItemIndex(i, off) == IF off = 0 THEN i ELSE i + 1

\* Mutant: an empty list item is split like any other.
BlankItemDedentsNever(parentContentSize) == FALSE

\* if (parentContentSize === 0): blank list item
BlankItemDedents(parentContentSize) == parentContentSize = 0

handleEnter(d, i, off) ==
  LET parent == d[i]
      parentContentSize == nodeSize(parent) - 2
  IN
  IF ~isFlatListNode(parent) THEN NotHandled(d)
  ELSE IF ~(off = 0 \/ off = parentContentSize) THEN NotHandled(d)
  ELSE IF BlankItemDedents(parentContentSize) THEN dedentFlatListItem(d, i, i, TRUE)
  ELSE LET newItem == [parent EXCEPT !.content = <<>>] IN
       [doc |-> InsertAt(d, NewItemIndex(i, off), newItem), ok |-> TRUE]

handleBackspace1(d, i, off) ==
  IF ~isFlatListNode(d[i]) THEN NotHandled(d)
  ELSE IF off # 0 THEN NotHandled(d)
  ELSE dedentFlatListItem(d, i, i, TRUE)

handleBackspace2(d, i, off) ==
  IF off # 0 THEN NotHandled(d)
  ELSE IF i = 1 THEN NotHandled(d)
  ELSE IF ~isFlatListNode(d[i - 1]) THEN NotHandled(d)
  ELSE IF Len(d[i - 1].content) # 0 THEN NotHandled(d)
  ELSE [doc |-> JoinAt(d, i - 1), ok |-> TRUE]

\* Mutant: the merge is tried before the dedent.
handleBackspaceMergeFirst(d, i, off) ==
  LET r2 == handleBackspace2(d, i, off) IN
  IF r2.ok THEN r2 ELSE handleBackspace1(d, i, off)

\* undoInputRule() || handleBackspace1 || handleBackspace2; no input rule
\* has just fired, so undoInputRule() is false.
handleBackspace(d, i, off) ==
  LET r1 == handleBackspace1(d, i, off) IN
  IF r1.ok THEN r1 ELSE handleBackspace2(d, i, off)

handleDelete(d, i) ==
  IF ~isFlatListNode(d[i]) THEN NotHandled(d)
  ELSE IF nodeSize(d[i]) - 2 # 0 THEN NotHandled(d)
  ELSE IF i = Len(d) THEN NotHandled(d)
  ELSE [doc |-> JoinAt(d, i), ok |-> TRUE]

-----------------------------------------------------------------------------
(* flatListPastePlugin.transformPasted                                     *)

\* view.state.selection.$from for a cursor in the text of block i, after
\* `off` characters: depth 1, inside child i of the document.
ResolveInBlock(d, i, off) == [depth |-> 1, index |-> i, pos |-> posOf(d, i) + 1 + off]

\* $from of a selection that starts at the document's own level.
ResolveAtTop(d) == [depth |-> 0, index |-> 1, pos |-> 0]

\* from.depth > 0 && isFlatListNode(from.node(1))
InListItem(d, from) == from.depth > 0 /\ isFlatListNode(d[from.index])

\* from.depth > 0 && from.pos == from.posAtIndex(from.index(0), 0) + 1
AtStartOfBlock(d, from) == from.depth > 0 /\ from.pos = posOf(d, from.index) + 1

\* Mutant: a new list starts at its raw indent.
FirstDeltaZero(contextIndent, childIndent) == 0

\* delta = contextIndent - child.attrs.indent
FirstDelta(contextIndent, childIndent) == contextIndent - childIndent

\* Mutant: the clamp has no ceiling.
ClampedNoCeiling(newIndent, lastIndent) == IF newIndent < 0 THEN 0 ELSE newIndent

\* newIndent after the clamp into [0, lastIndent + 1]
Clamped(newIndent, lastIndent) ==
  IF newIndent < 0 THEN 0
  ELSE IF newIndent > lastIndent + 1 THEN lastIndent + 1
  ELSE newIndent

NoDelta == [set |-> FALSE, v |-> 0]

\* Mutant: the first node is rewritten like any other.
SkipsFirstNever(k, rewriteFirst) == FALSE

\* if (i === 0) { if (!(...)) continue }
SkipsFirst(k, rewriteFirst) == k = 1 /\ ~rewriteFirst

\* Mutant: the shift survives a non-list node.
DeltaAfterNonListKept(delta) == delta

\* delta = null
DeltaAfterNonList(delta) == NoDelta

RECURSIVE PasteLoop(_, _, _, _, _, _)
\* for (let i = 0; i < slice.content.childCount; i++): child k here is
\* child i = k - 1 there; delta.set = FALSE is delta === null.
PasteLoop(content, k, contextIndent, lastIndent, delta, rewriteFirst) ==
  IF k > Len(content) THEN content
  ELSE
    LET child == content[k] IN
    IF isFlatListNode(child) THEN
      LET delta1 == IF delta.set THEN delta.v ELSE FirstDelta(contextIndent, child.indent)
          shifted == child.indent + delta1
          newIndent == Clamped(shifted, lastIndent)
      IN IF SkipsFirst(k, rewriteFirst)
         THEN PasteLoop(content, k + 1, contextIndent, lastIndent,
                        [set |-> TRUE, v |-> delta1], rewriteFirst)
         ELSE PasteLoop([content EXCEPT ![k].indent = newIndent], k + 1, contextIndent,
                        newIndent, [set |-> TRUE, v |-> delta1 + (newIndent - shifted)],
                        rewriteFirst)
    ELSE PasteLoop(content, k + 1, 0, lastIndent, DeltaAfterNonList(delta), rewriteFirst)

\* Mutant: the first node is left to the postprocessor.
UnpropFirstSkipped(content) == content

\* 2. Process _isTempPropped indicator for the first node.
UnpropFirst(content) ==
  IF content # <<>> /\ isFlatListNode(content[1]) /\ content[1].prop
  THEN [content EXCEPT ![1] = [@ EXCEPT !.prop = FALSE,
                                        !.content = SubSeq(@, 2, Len(@))]]
  ELSE content

\* transformPasted(slice, view): the top-level nodes of the returned slice.
transformPasted(content, d, from) ==
  LET inItem == InListItem(d, from)
      contextIndent == IF inItem THEN d[from.index].indent ELSE 0
      lastIndent == IF inItem THEN d[from.index].indent ELSE -1
  IN UnpropFirst(PasteLoop(content, 1, contextIndent, lastIndent, NoDelta,
                           AtStartOfBlock(d, from)))

\* The document once the returned slice has replaced the selection, as the
\* plugin describes it: the slice is open on both sides, so its first node
\* is merged into the paste target, which keeps its own type and
\* attributes unless the paste is at its very beginning, and the target's
\* text after the cursor ends up in the block of the slice's last node.  At
\* the document's own level the nodes are inserted as they are.
InsertSlice(d, from, content) ==
  IF content = <<>> THEN d
  ELSE IF from.depth = 0 THEN content \o d
  ELSE
    LET i == from.index
        off == from.pos - (posOf(d, i) + 1)
        target == d[i]
        textBefore == SubSeq(target.content, 1, off)
        textAfter == SubSeq(target.content, off + 1, Len(target.content))
        n == Len(content)
        first == IF AtStartOfBlock(d, from) THEN content[1]
                 ELSE [target EXCEPT !.content = textBefore \o content[1].content]
        merged == IF n = 1 THEN <<[first EXCEPT !.content = @ \o textAfter]>>
                  ELSE <<first>> \o SubSeq(content, 2, n - 1)
                         \o <<[content[n] EXCEPT !.content = @ \o textAfter]>>
    IN SubSeq(d, 1, i - 1) \o merged \o SubSeq(d, i + 1, Len(d))

-----------------------------------------------------------------------------
(* JoinListDOMSerializer: renderHTML of every block, then joinListElements *)
(* on the rendered elements; and the parse rules that read such HTML back. *)
(* Element k is the wrapper (or the paragraph) rendered for block k, item  *)
(* k its single LI.  An absent attribute is -1.                            *)

\* super.serializeFragment: renderHTML of every child of the fragment.
\* top: the children of the fragment; items[k]: the LIs of wrapper k;
\* nested[k]: the wrappers inside the content element of item k;
\* shaped[k]: item k has the label and div of a rendered task item.
serializeFragment(d) ==
  LET n == Len(d) IN
  [top        |-> [k \in 1..n |-> k],
   tag        |-> [k \in 1..n |-> IF d[k].type = "ordered" THEN "OL"
                                   ELSE IF d[k].type \in ListTypes THEN "UL" ELSE "P"],
   taskList   |-> [k \in 1..n |-> d[k].type = "task"],
   start      |-> [k \in 1..n |-> IF d[k].type = "ordered" THEN d[k].counter ELSE -1],
   items      |-> [k \in 1..n |-> IF isFlatListNode(d[k]) THEN <<k>> ELSE <<>>],
   dataIndent |-> [k \in 1..n |-> IF isFlatListNode(d[k]) THEN d[k].indent ELSE -1],
   checked    |-> [k \in 1..n |-> d[k].checked],
   shaped     |-> [k \in 1..n |-> d[k].type = "task"],
   text       |-> [k \in 1..n |-> d[k].content],
   nested     |-> [k \in 1..n |-> <<>>]]

\* getElementListType(element), "none" for null
getElementListType(dom, k) ==
  IF dom.tag[k] = "OL" THEN "ordered"
  ELSE IF dom.tag[k] = "UL" THEN (IF dom.taskList[k] THEN "task" ELSE "unordered")
  ELSE "none"

RemoveAt(s, i) == SubSeq(s, 1, i - 1) \o SubSeq(s, i + 1, Len(s))

\* Mutant: a new list is never nested.
NestsUnderNever(lastLists, indent) == FALSE

\* indent > 0 && lastLists[indent - 1] !== undefined
NestsUnder(lastLists, indent) == indent > 0 /\ ArrGet(lastLists, indent - 1) # 0

\* Mutant: a list of another type at the indent is continued.
StartsNewListTypeBlind(dom, lastList, listType) == lastList = 0

\* lastList === undefined || getElementListType(lastList) !== listType
StartsNewList(dom, lastList, listType) ==
  lastList = 0 \/ getElementListType(dom, lastList) # listType

\* Mutant: the indent attribute is removed whatever the output is for.
StripsIndentAlways(usedFor) == TRUE

\* if (usedFor === "getHTML") liChild.removeAttribute("data-list-indent")
StripsIndent(usedFor) == usedFor = "getHTML"

\* Mutant: i is not decremented when the block left doc.children.
NextIndexNoDecrement(i, left) == i + 1

\* The index of the next iteration: i-- when the block left doc.children,
\* then the loop's i++.
NextIndex(i, left) == (IF left THEN i - 1 ELSE i) + 1

\* One iteration of the loop of joinListElements on doc.children.item(i);
\* i counts from 1.
JoinStep(st, usedFor) ==
  LET dom == st.dom
      block == dom.top[st.i]
      listType == getElementListType(dom, block)
  IN
  IF listType = "none"
  THEN [st EXCEPT !.i = NextIndex(st.i, FALSE), !.lastLists = <<>>]
  ELSE
    LET liChild == dom.items[block][1]
        indent == IF dom.dataIndent[liChild] = -1 THEN 0 ELSE dom.dataIndent[liChild]
        dom0 == IF StripsIndent(usedFor)
                THEN [dom EXCEPT !.dataIndent[liChild] = -1]
                ELSE dom
        dom1 == IF usedFor = "clipboard"
                THEN [dom0 EXCEPT !.shaped[liChild] = FALSE]
                ELSE dom0
        lastList == ArrGet(st.lastLists, indent)
    IN
    IF StartsNewList(dom1, lastList, listType)
    THEN \* child starts a new list
      LET dom2 == [dom1 EXCEPT !.start[block] = -1]
          lists == ArrSetLength(ArrSet(st.lastLists, indent, block), indent + 1)
      IN
      IF NestsUnder(st.lastLists, indent)
      THEN LET parentList == ArrGet(st.lastLists, indent - 1)
               parentLi == dom2.items[parentList][Len(dom2.items[parentList])]
           IN [dom |-> [dom2 EXCEPT !.nested[parentLi] = Append(@, block),
                                    !.top = RemoveAt(@, st.i)],
               i |-> NextIndex(st.i, TRUE),
               lastLists |-> lists]
      ELSE [dom |-> dom2, i |-> NextIndex(st.i, FALSE), lastLists |-> lists]
    ELSE \* append child's li to the existing list
      [dom |-> [dom1 EXCEPT !.items[lastList] = Append(@, liChild),
                            !.items[block] = <<>>,
                            !.top = RemoveAt(@, st.i)],
       i |-> NextIndex(st.i, TRUE),
       lastLists |-> ArrSetLength(st.lastLists, indent + 1)]

RECURSIVE JoinLoop(_, _)
JoinLoop(st, usedFor) ==
  IF st.i > Len(st.dom.top) THEN st ELSE JoinLoop(JoinStep(st, usedFor), usedFor)

RECURSIVE JoinTrace(_, _)
\* The states of the loop of joinListElements, one before each iteration
\* and the one the loop ends in.
JoinTrace(st, usedFor) ==
  IF st.i > Len(st.dom.top) THEN <<st>>
  ELSE <<st>> \o JoinTrace(JoinStep(st, usedFor), usedFor)

\* joinListElements(doc, usedFor)
joinListElements(dom, usedFor) ==
  JoinLoop([dom |-> dom, i |-> 1, lastLists |-> <<>>], usedFor).dom

\* JoinListDOMSerializer.serializeFragment(fragment)
JoinSerialize(d, usedFor) == joinListElements(serializeFragment(d), usedFor)

\* computeIndent(element): the stored indent, else the number of ancestor
\* ol/ul elements less one, at least 0.
computeIndent(dom, li, ancestors) ==
  IF dom.dataIndent[li] # -1 THEN dom.dataIndent[li] ELSE Max(ancestors - 1, 0)

\* An attribute of an element: absent (getAttribute gives null) or a text,
\* a sequence of characters.
NoAttr == [present |-> FALSE, text |-> <<>>]

HexDigits == <<"0", "1", "2", "3", "4", "5", "6", "7", "8", "9",
               "a", "b", "c", "d", "e", "f">>

\* The value of character c as a digit of radix R, or -1 if it is none.
DigitValue(c, R) ==
  IF \E k \in 1..R : HexDigits[k] = c
  THEN (CHOOSE k \in 1..R : HexDigits[k] = c) - 1
  ELSE -1

RECURSIVE TrimStart(_)
\* The text without its leading white space.
TrimStart(s) == IF s # <<>> /\ Head(s) = " " THEN TrimStart(Tail(s)) ELSE s

RECURSIVE DigitsValue(_, _, _, _)
\* The number written by the longest prefix of s made of digits of radix
\* R, after the digits read so far (seen, of value acc); none is NaN.
DigitsValue(s, R, acc, seen) ==
  IF s # <<>> /\ DigitValue(Head(s), R) >= 0
  THEN DigitsValue(Tail(s), R, acc * R + DigitValue(Head(s), R), TRUE)
  ELSE [ok |-> seen, v |-> acc]

\* Number.parseInt(text) without a radix: leading white space, a sign, a
\* 0x prefix for radix 16, then the digits up to the first other character.
parseInt(text) ==
  LET s == TrimStart(text)
      signed == s # <<>> /\ Head(s) \in {"-", "+"}
      sign == IF s # <<>> /\ Head(s) = "-" THEN -1 ELSE 1
      t == IF signed THEN Tail(s) ELSE s
      hex == Len(t) >= 2 /\ t[1] = "0" /\ t[2] = "x"
      n == IF hex THEN DigitsValue(Tail(Tail(t)), 16, 0, FALSE)
           ELSE DigitsValue(t, 10, 0, FALSE)
  IN [ok |-> n.ok, v |-> sign * n.v]

\* parseIntegerAttr(attr): ok is FALSE for undefined.
parseIntegerAttr(attr) ==
  IF ~attr.present THEN [ok |-> FALSE, v |-> 0] ELSE parseInt(attr.text)

\* Mutant: every ancestor is counted, a list or not.
CountAncestorsAny(chain, count) == count + Len(chain)

RECURSIVE CountAncestors(_, _)
\* count after the loop over element.parentElement, ...: chain holds the tag names of
\* the element's ancestors, nearest first.
CountAncestors(chain, count) ==
  IF chain = <<>> THEN count
  ELSE CountAncestors(Tail(chain),
                      IF Head(chain) \in {"UL", "OL"} THEN count + 1 ELSE count)

\* computeIndent(element) for an element with the given data-list-indent
\* attribute and ancestors.
computeIndentOf(attr, chain) ==
  LET storedIndent == parseIntegerAttr(attr) IN
  IF storedIndent.ok THEN storedIndent.v
  ELSE Max(CountAncestors(chain, -1), 0)

\* hasNoContentBeforeChildList(contentElement)
hasNoContentBeforeChildList(dom, li) == dom.text[li] = <<>> /\ dom.nested[li] # <<>>

\* The parse rules on an LI inside wrapper w, which has so many ancestor
\* ol/ul elements: ordered before task before unordered.
ParseLi(dom, w, li, ancestors) ==
  LET prop == hasNoContentBeforeChildList(dom, li)
      type == IF dom.tag[w] = "OL" THEN "ordered"
              ELSE IF dom.taskList[w] THEN "task" ELSE "unordered"
  IN MkNode(type, computeIndent(dom, li, ancestors), 1, dom.checked[li], prop,
            IF prop THEN <<NBSP>> \o dom.text[li] ELSE dom.text[li])

RECURSIVE ParseItems(_, _, _, _)
RECURSIVE ParseWrappers(_, _, _)
\* The LIs of wrapper w in order, each followed by what the wrappers inside
\* it hold: a list item holds no block, so these become its later siblings.
ParseItems(dom, w, lis, ancestors) ==
  IF lis = <<>> THEN <<>>
  ELSE <<ParseLi(dom, w, Head(lis), ancestors)>>
         \o ParseWrappers(dom, dom.nested[Head(lis)], ancestors)
         \o ParseItems(dom, w, Tail(lis), ancestors)

\* The wrappers ws, children of an element with so many ancestor ol/ul
\* elements (itself included).
ParseWrappers(dom, ws, ancestors) ==
  IF ws = <<>> THEN <<>>
  ELSE ParseItems(dom, Head(ws), dom.items[Head(ws)], ancestors + 1)
         \o ParseWrappers(dom, Tail(ws), ancestors)

RECURSIVE ParseTop(_, _)
\* The children of the serialized fragment from the i-th on, parsed.
ParseTop(dom, i) ==
  IF i > Len(dom.top) THEN <<>>
  ELSE LET k == dom.top[i] IN
       (IF dom.tag[k] = "P"
        THEN <<MkNode("paragraph", 0, 1, FALSE, FALSE, dom.text[k])>>
        ELSE ParseWrappers(dom, <<k>>, 0))
         \o ParseTop(dom, i + 1)

\* The document that the schema's parse rules read from serialized HTML.
parseHTML(dom) == ParseTop(dom, 1)

-----------------------------------------------------------------------------
(* The editor as a state machine.  A command that is applicable dispatches *)
(* its transaction, and the postprocessor's transaction is appended; one   *)
(* that is not applicable dispatches nothing.                              *)

NoOp == [op |-> "init", ok |-> FALSE, from |-> 0, to |-> 0, arg |-> FALSE,
         pre |-> <<>>, before |-> <<>>]

\* What a state remembers of the operation that produced it.  A session
\* (keep = FALSE) remembers the operation and its result only; a single
\* step (keep = TRUE) also remembers the inputs and the document before,
\* and the same of the step that came before it.
Hist(keep, op, ok, from, to, arg, pre) ==
  IF keep
  THEN [op |-> op, ok |-> ok, from |-> from, to |-> to, arg |-> arg, pre |-> pre,
        before |-> [op |-> last.op, from |-> last.from, to |-> last.to,
                    arg |-> last.arg, pre |-> last.pre]]
  ELSE [op |-> op, ok |-> ok, from |-> 0, to |-> 0, arg |-> FALSE, pre |-> <<>>,
        before |-> <<>>]

\* Mutant: the postprocessor plugin is not installed.
DispatchWithoutPlugin(d, r) == IF r.ok THEN r.doc ELSE d

\* addProseMirrorPlugins: a handler's result r, once dispatched, is
\* followed by the postprocessor's transaction.
Dispatch(d, r) == IF r.ok /\ ~Throws(r.doc) THEN Commit(r.doc) ELSE d

Indent(keep, from, to) ==
  LET r == indentFlatListItem(doc, from, to) IN
  /\ doc' = Dispatch(doc, r)
  /\ last' = Hist(keep, "indent", r.ok, from, to, FALSE, doc)
  /\ UNCHANGED slice

Dedent(keep, from, to, canConvert) ==
  LET r == dedentFlatListItem(doc, from, to, canConvert) IN
  /\ doc' = Dispatch(doc, r)
  /\ last' = Hist(keep, "dedent", r.ok, from, to, canConvert, doc)
  /\ UNCHANGED slice

SetItem(keep, from, to, listType, attributes) ==
  LET r == setFlatListItem(doc, from, to, listType, attributes) IN
  /\ doc' = Dispatch(doc, r)
  /\ last' = Hist(keep, "set", r.ok, from, to, [type |-> listType, attrs |-> attributes], doc)
  /\ UNCHANGED slice

ToggleItem(keep, from, to, listType, attributes) ==
  LET r == toggleFlatListItem(doc, from, to, listType, attributes) IN
  /\ doc' = Dispatch(doc, r)
  /\ last' = Hist(keep, "toggle", r.ok, from, to, [type |-> listType, attrs |-> attributes], doc)
  /\ UNCHANGED slice

Enter(keep, i, off) ==
  LET r == handleEnter(doc, i, off) IN
  /\ doc' = Dispatch(doc, r)
  /\ last' = Hist(keep, "enter", r.ok, i, i, off, doc)
  /\ UNCHANGED slice

Backspace(keep, i, off) ==
  LET r == handleBackspace(doc, i, off) IN
  /\ doc' = Dispatch(doc, r)
  /\ last' = Hist(keep, "backspace", r.ok, i, i, off, doc)
  /\ UNCHANGED slice

Delete(keep, i, off) ==
  LET r == handleDelete(doc, i) IN
  /\ doc' = Dispatch(doc, r)
  /\ last' = Hist(keep, "delete", r.ok, i, i, off, doc)
  /\ UNCHANGED slice

\* No operation has acted yet: the guard of a specification of one step.
Fresh == last.op = "init"

\* b.indent <= a.indent + 1 for adjacent list items a, b
Staircase(d) ==
  \A i \in 1..(Len(d) - 1) :
    (isFlatListNode(d[i]) /\ isFlatListNode(d[i + 1]))
      => d[i + 1].indent <= d[i].indent + 1

RECURSIVE SeqsUpTo(_, _)
\* The sequences over S of length 0..n
SeqsUpTo(S, n) ==
  IF n = 0 THEN {<<>>}
  ELSE LET shorter == SeqsUpTo(S, n - 1)
       IN shorter \cup {Append(s, x) : s \in {t \in shorter : Len(t) = n - 1}, x \in S}

\* Block i of an initial document holds the single character i.
WithContent(d) == [i \in 1..Len(d) |-> [d[i] EXCEPT !.content = <<i>>]]

\* Blocks of a document as parsed: counter is never parsed and has its
\* default.  Indent, dedent and the pass take the same branches for a task
\* item as for an unordered one.
BlocksUpTo(maxIndent) ==
  {MkNode("paragraph", 0, 1, FALSE, FALSE, <<>>)}
    \cup {MkNode(t, n, 1, FALSE, FALSE, <<>>) :
            t \in {"ordered", "unordered"}, n \in 0..maxIndent}

\* The same with task items, which the serializer and the parse rules tell
\* from unordered ones.
FoldBlocks ==
  BlocksUpTo(FoldIndent)
    \cup {MkNode("task", n, 1, FALSE, FALSE, <<>>) : n \in 0..FoldIndent}

(* Spec: an editing session.  The document is the one parsed at start,   *)
(* every command and key handler may follow on any selection.             *)

\* The `attributes` a caller may give: indent and checked, each or none.
CallerAttrs(listType) ==
  {[NoAttrs EXCEPT !.hasIndent = hi, !.indent = n, !.hasChecked = hc, !.checked = c] :
     hi \in BOOLEAN, n \in 0..MaxIndent, hc \in BOOLEAN, c \in BOOLEAN}
  \ {a \in {[NoAttrs EXCEPT !.hasIndent = hi, !.indent = n, !.hasChecked = hc, !.checked = c] :
              hi \in BOOLEAN, n \in 0..MaxIndent, hc \in BOOLEAN, c \in BOOLEAN} :
       \/ (~a.hasIndent /\ a.indent # 0)
       \/ (~a.hasChecked /\ a.checked)
       \/ (listType # "task" /\ a.hasChecked)}

\* A parsed block: the text is one character, a propped item holds NBSP.
ParsedBlocks ==
  {MkNode("paragraph", 0, 1, FALSE, FALSE, c) : c \in {<<>>, <<1>>}}
    \cup {MkNode(t, n, 1, FALSE, FALSE, c) :
            t \in ListTypes, n \in 0..MaxIndent, c \in {<<>>, <<1>>}}
    \cup {MkNode(t, n, 1, FALSE, TRUE, <<NBSP>>) : t \in ListTypes, n \in 0..MaxIndent}

Init ==
  /\ doc \in {s \in SeqsUpTo(ParsedBlocks, MaxLen) : Len(s) > 0 /\ Staircase(s)}
  /\ last = NoOp
  /\ slice = <<>>

Next ==
  \/ \E from \in 1..Len(doc) : \E to \in from..Len(doc) : Indent(FALSE, from, to)
  \/ \E from \in 1..Len(doc) : \E to \in from..Len(doc) :
       \E canConvert \in BOOLEAN : Dedent(FALSE, from, to, canConvert)
  \/ \E from \in 1..Len(doc) : \E to \in from..Len(doc) :
       \E t \in ListTypes : \E a \in CallerAttrs(t) : SetItem(FALSE, from, to, t, a)
  \/ \E from \in 1..Len(doc) : \E to \in from..Len(doc) :
       \E t \in ListTypes : \E a \in CallerAttrs(t) : ToggleItem(FALSE, from, to, t, a)
  \/ \E i \in 1..Len(doc) : \E off \in 0..Len(doc[i].content) :
       /\ Len(handleEnter(doc, i, off).doc) <= MaxLen
       /\ Enter(FALSE, i, off)
  \/ \E i \in 1..Len(doc) : \E off \in 0..Len(doc[i].content) : Backspace(FALSE, i, off)
  \/ \E i \in 1..Len(doc) : \E off \in 0..Len(doc[i].content) : Delete(FALSE, i, off)

Spec == Init /\ [][Next]_vars

(* SpecEdit: one edit of any kind on any document state, committed or not: *)
(* counters may be stale and items propped.  A task item takes the        *)
(* branches of an unordered one in every handler and in the pass, so the  *)
(* documents hold ordered and unordered items; Set and Toggle still turn   *)
(* blocks into any of the three types.                                     *)

EditBlocks ==
  {MkNode("paragraph", 0, 1, FALSE, FALSE, c) : c \in {<<>>, <<1>>}}
    \cup {MkNode(t, n, 1, FALSE, FALSE, c) :
            t \in {"ordered", "unordered"}, n \in 0..EditIndent, c \in {<<>>, <<1>>}}
    \cup {MkNode(t, n, 1, FALSE, TRUE, <<NBSP>>) :
            t \in {"ordered", "unordered"}, n \in 0..EditIndent}

\* The `attributes` of a caller that gives an indent or nothing.
IndentAttrs ==
  {NoAttrs} \cup {[NoAttrs EXCEPT !.hasIndent = TRUE, !.indent = n] : n \in 0..EditIndent}

EditInit ==
  /\ doc \in {s \in SeqsUpTo(EditBlocks, EditLen) : Len(s) > 0}
  /\ last = NoOp
  /\ slice = <<>>

EditNext ==
  \/ \E from \in 1..Len(doc) : \E to \in from..Len(doc) :
       Fresh /\ Indent(FALSE, from, to)
  \/ \E from \in 1..Len(doc) : \E to \in from..Len(doc) :
       \E canConvert \in BOOLEAN : Fresh /\ Dedent(FALSE, from, to, canConvert)
  \/ \E from \in 1..Len(doc) : \E to \in from..Len(doc) :
       \E t \in ListTypes : \E a \in IndentAttrs : Fresh /\ SetItem(FALSE, from, to, t, a)
  \/ \E from \in 1..Len(doc) : \E to \in from..Len(doc) :
       \E t \in ListTypes : Fresh /\ ToggleItem(FALSE, from, to, t, NoAttrs)
  \/ \E i \in 1..Len(doc) : \E off \in 0..Len(doc[i].content) :
       Fresh /\ Enter(FALSE, i, off)
  \/ \E i \in 1..Len(doc) : \E off \in 0..Len(doc[i].content) :
       Fresh /\ Backspace(FALSE, i, off)
  \/ \E i \in 1..Len(doc) : \E off \in 0..Len(doc[i].content) :
       Fresh /\ Delete(FALSE, i, off)

SpecEdit == EditInit /\ [][EditNext]_vars

(* SpecPost: the postprocessor's pass on any sequence of blocks, whether   *)
(* it satisfies the staircase rule or not, and a second pass on the       *)
(* document the first one produced.                                        *)

\* What a pass rewrote.
Report(p) == [counters |-> p.counters, markers |-> p.markers, toDelete |-> p.toDelete]

\* The reports of the passes made so far.
Reports == IF last.op = "pass" THEN last.arg ELSE <<>>

PostPass ==
  LET p == Postprocess(doc) IN
  /\ Len(Reports) < 2
  /\ doc' = p.doc
  /\ last' = Hist(TRUE, "pass", p.updated, 0, 0, Append(Reports, Report(p)), doc)
  /\ UNCHANGED slice

\* An ordered item stores a counter that is right or stale; a propped item
\* holds the propping character.
PostBlocks ==
  {MkNode("paragraph", 0, 1, FALSE, FALSE, <<1>>)}
    \cup {MkNode("ordered", n, c, FALSE, FALSE, <<1>>) : n \in 0..PostIndent, c \in {1, 2}}
    \cup {MkNode("unordered", n, 1, FALSE, FALSE, <<1>>) : n \in 0..PostIndent}
    \cup {MkNode(t, n, 1, FALSE, TRUE, <<NBSP>>) :
            t \in {"ordered", "unordered"}, n \in 0..PostIndent}

PostInit ==
  /\ doc \in {s \in SeqsUpTo(PostBlocks, PostLen) : Len(s) > 0}
  /\ last = NoOp
  /\ slice = <<>>

PostNext == PostPass

SpecPost == PostInit /\ [][PostNext]_vars

(* SpecMarks: the postprocessor's pass on documents in which any number   *)
(* of list items are marked as propped, with the propping character alone *)
(* or in front of other text, next to unmarked items and paragraphs.      *)

MarkBlocks ==
  {MkNode("paragraph", 0, 1, FALSE, FALSE, <<1>>)}
    \cup {MkNode("ordered", n, 1, FALSE, FALSE, <<1>>) : n \in 0..MarkIndent}
    \cup {MkNode("task", n, 1, TRUE, FALSE, <<1, 2>>) : n \in 0..MarkIndent}
    \cup {MkNode("task", n, 1, TRUE, TRUE, <<NBSP, 1>>) : n \in 0..MarkIndent}
    \cup {MkNode("unordered", n, 1, FALSE, TRUE, <<NBSP>>) : n \in 0..MarkIndent}

MarkInit ==
  /\ doc \in {s \in SeqsUpTo(MarkBlocks, MarkLen) : Len(s) > 0}
  /\ last = NoOp
  /\ slice = <<>>

MarkNext == PostPass

SpecMarks == MarkInit /\ [][MarkNext]_vars

(* SpecNested: the postprocessor's pass on documents of a host schema     *)
(* with a container block: ordered items are children of the document or  *)
(* children of a container.                                                *)

NestItems ==
  {MkNode("ordered", n, 1, FALSE, FALSE, <<1>>) : n \in 0..NestIndent}
    \cup {MkNode("ordered", 0, 1, FALSE, TRUE, <<NBSP>>)}

NestBlocks ==
  NestItems
    \cup {Container(c) : c \in {s \in SeqsUpTo(NestItems, InnerLen) : Len(s) > 0}}

NestInit ==
  /\ doc \in {s \in SeqsUpTo(NestBlocks, NestLen) : Len(s) > 0}
  /\ last = NoOp
  /\ slice = <<>>

NestNext == PostPass

SpecNested == NestInit /\ [][NestNext]_vars

(* SpecPaste: the paste plugin's transformation of any pasted slice, for  *)
(* a cursor in a block of the document or a selection at its top level.   *)

PasteInto(i, off) ==
  /\ slice' = transformPasted(slice, doc, ResolveInBlock(doc, i, off))
  /\ last' = Hist(TRUE, "paste", TRUE, i, off, [depth |-> 1, raw |-> slice], doc)
  /\ UNCHANGED doc

PasteAtTop ==
  /\ slice' = transformPasted(slice, doc, ResolveAtTop(doc))
  /\ last' = Hist(TRUE, "paste", TRUE, 0, 0, [depth |-> 0, raw |-> slice], doc)
  /\ UNCHANGED doc

\* The nodes of a pasted slice, with their raw indents; the first node may
\* be propped.
PastedNodes ==
  {MkNode("paragraph", 0, 1, FALSE, FALSE, <<1>>)}
    \cup {MkNode("ordered", n, 1, FALSE, FALSE, <<1>>) : n \in 0..PasteRaw}

ProppedNodes == {MkNode("ordered", 0, 1, FALSE, TRUE, <<NBSP, 1>>)}

PasteInit ==
  /\ doc \in {<<b>> : b \in {MkNode("paragraph", 0, 1, FALSE, FALSE, <<1>>)}
                         \cup {MkNode("ordered", n, 1, FALSE, FALSE, <<1>>) :
                                 n \in 0..PasteIndent}}
  /\ slice \in {s \in SeqsUpTo(PastedNodes, PasteLen) : Len(s) > 0}
               \cup {<<b>> \o s : b \in ProppedNodes,
                                  s \in SeqsUpTo(PastedNodes, PasteLen - 1)}
  /\ last = NoOp

PasteNext ==
  \/ \E i \in 1..Len(doc) : \E off \in 0..Len(doc[i].content) :
       Fresh /\ PasteInto(i, off)
  \/ Fresh /\ PasteAtTop

SpecPaste == PasteInit /\ [][PasteNext]_vars

(* SpecImport: computeIndent on an li with any data-list-indent attribute *)
(* and any chain of ancestors.                                             *)

AttrChars == {" ", "-", "0", "2", "x"}

AttrTexts == {NoAttr} \cup {[present |-> TRUE, text |-> t] : t \in SeqsUpTo(AttrChars, AttrLen)}

ImportLi ==
  /\ doc' = <<MkNode("unordered", computeIndentOf(slice.attr, slice.chain),
                     1, FALSE, FALSE, <<>>)>>
  /\ last' = Hist(TRUE, "import", TRUE, 0, 0, parseIntegerAttr(slice.attr), doc)
  /\ UNCHANGED slice

ImportInit ==
  /\ doc = <<>>
  /\ slice \in [attr : AttrTexts, chain : SeqsUpTo({"UL", "OL", "LI"}, ChainLen)]
  /\ last = NoOp

ImportNext == Fresh /\ ImportLi

SpecImport == ImportInit /\ [][ImportNext]_vars

(* SpecClassify: the three parse rules on an li with any parent element,    *)
(* and the Folder's test on the same element.                               *)

\* priority of the three node extensions: the parser tries the rules of
\* the node with the larger priority first
OrderedPriority == 230
TaskPriority == 220
UnorderedPriority == 210

TrueText == <<"t", "r", "u", "e">>

\* attrTaskList === "" || attrTaskList === "true"
isTaskListAttr(attr) == attr.present /\ attr.text \in {<<>>, TrueText}

\* Mutant: only an ol without the task marker matches the ordered rule.
orderedGetAttrsUnmarked(parent) ==
  parent.present /\ parent.tag = "OL" /\ ~isTaskListAttr(parent.marker)

\* FlatListOrdered.parseHTML()[0].getAttrs: whether the rule takes the li
\* (element.parentElement?.tagName === "OL")
orderedGetAttrs(parent) == parent.present /\ parent.tag = "OL"

\* FlatListTask.parseHTML()[0].getAttrs
taskGetAttrs(parent) == parent.present /\ isTaskListAttr(parent.marker)

\* FlatListUnordered.parseHTML()[0].getAttrs never returns false
unorderedGetAttrs(parent) == TRUE

ParseRules ==
  {[type |-> "ordered", priority |-> OrderedPriority],
   [type |-> "task", priority |-> TaskPriority],
   [type |-> "unordered", priority |-> UnorderedPriority]}

RuleMatches(rule, parent) ==
  CASE rule.type = "ordered" -> orderedGetAttrs(parent)
    [] rule.type = "task" -> taskGetAttrs(parent)
    [] OTHER -> unorderedGetAttrs(parent)

\* The node type of the first rule, by priority, whose getAttrs does not
\* return false.
classifyLi(parent) ==
  LET matching == {r \in ParseRules : RuleMatches(r, parent)}
  IN (CHOOSE r \in matching : \A q \in matching : q.priority <= r.priority).type

\* getElementListType(element), the data-task-list attribute as text
getElementListTypeOf(tag, marker) ==
  IF tag = "OL" THEN "ordered"
  ELSE IF tag = "UL" THEN (IF isTaskListAttr(marker) THEN "task" ELSE "unordered")
  ELSE "none"

TaskAttrChars == {"t", "r", "u", "e", "T"}

TaskAttrTexts ==
  {NoAttr} \cup {[present |-> TRUE, text |-> t] : t \in SeqsUpTo(TaskAttrChars, TaskAttrLen)}

\* li.parentElement: null, or an element with a tag and maybe the attribute
LiParents ==
  {[present |-> FALSE, tag |-> "", marker |-> NoAttr]}
    \cup [present : {TRUE}, tag : {"OL", "UL", "DIV"}, marker : TaskAttrTexts]

ClassifyLi ==
  /\ doc' = <<MkNode(classifyLi(slice), 0, 1, FALSE, FALSE, <<>>)>>
  /\ last' = Hist(TRUE, "classify", TRUE, 0, 0,
                  getElementListTypeOf(slice.tag, slice.marker), doc)
  /\ UNCHANGED slice

ClassifyInit ==
  /\ doc = <<>>
  /\ slice \in LiParents
  /\ last = NoOp

ClassifyNext == Fresh /\ ClassifyLi

SpecClassify == ClassifyInit /\ [][ClassifyNext]_vars

(* SpecPasteCommit: a paste of a slice in which any node may be marked as *)
(* propped, and the transaction that puts the returned slice into the     *)
(* document, followed by the postprocessor's.                              *)

PasteCommit ==
  LET from == IF last.arg.depth = 0 THEN ResolveAtTop(doc)
              ELSE ResolveInBlock(doc, last.from, last.to)
  IN /\ last.op = "paste"
     /\ doc' = IF Throws(InsertSlice(doc, from, slice)) THEN doc
                ELSE Commit(InsertSlice(doc, from, slice))
     /\ last' = Hist(TRUE, "pasted", TRUE, last.from, last.to, slice, doc)
     /\ UNCHANGED slice

\* The text of a pasted node is 1, that of the document 7 8.
CommitNodes ==
  {MkNode("paragraph", 0, 1, FALSE, FALSE, <<1>>)}
    \cup {MkNode("ordered", n, 1, FALSE, FALSE, <<1>>) : n \in 0..CommitRaw}
    \cup {MkNode("ordered", n, 1, FALSE, TRUE, <<NBSP, 1>>) : n \in 0..CommitRaw}
    \cup {MkNode("unordered", 0, 1, FALSE, TRUE, <<NBSP>>)}

PasteCommitInit ==
  /\ doc \in {<<b>> : b \in {MkNode("paragraph", 0, 1, FALSE, FALSE, <<7, 8>>)}
                         \cup {MkNode("unordered", n, 1, FALSE, FALSE, <<7, 8>>) :
                                 n \in 0..CommitRaw}}
  /\ slice \in {s \in SeqsUpTo(CommitNodes, CommitLen) : Len(s) > 0}
  /\ last = NoOp

PasteCommitNext ==
  \/ \E i \in 1..Len(doc) : \E off \in 0..Len(doc[i].content) :
       Fresh /\ PasteInto(i, off)
  \/ Fresh /\ PasteAtTop
  \/ PasteCommit

SpecPasteCommit == PasteCommitInit /\ [][PasteCommitNext]_vars

(* SpecSession: a session of Indent and Dedent commands and pastes, from   *)
(* a document that satisfies the staircase rule.  The pasted fragment's    *)
(* raw indents are what the parse rules read, which may be any integer.    *)

SessionBlocks ==
  {MkNode("paragraph", 0, 1, FALSE, FALSE, <<1>>)}
    \cup {MkNode("ordered", n, 1, FALSE, FALSE, <<1>>) : n \in 0..SessIndent}

\* The pasted nodes hold no text, so that the text of the document does
\* not grow from paste to paste.
SessionNodes ==
  {MkNode("paragraph", 0, 1, FALSE, FALSE, <<>>)}
    \cup {MkNode(t, n, 1, FALSE, FALSE, <<>>) :
            t \in {"ordered", "unordered"}, n \in (0 - SessRaw)..SessRaw}

SessionInit ==
  /\ doc \in {Commit(s) : s \in {t \in SeqsUpTo(SessionBlocks, 2) :
                                   Len(t) > 0 /\ Staircase(t)}}
  /\ slice \in {s \in SeqsUpTo(SessionNodes, 2) : Len(s) > 0}
  /\ last = NoOp

\* A paste at `from` as one step of a session: the plugin's fragment is put
\* into the document and the postprocessor's transaction follows.  The
\* clipboard keeps the raw fragment.
Paste(from) ==
  LET inserted == InsertSlice(doc, from, transformPasted(slice, doc, from)) IN
  /\ Len(doc) + Len(slice) <= SessLen
  /\ doc' = IF Throws(inserted) THEN doc ELSE Commit(inserted)
  /\ last' = Hist(FALSE, "pasted", ~Throws(inserted), 0, 0, FALSE, doc)
  /\ UNCHANGED slice

SessionNext ==
  \/ \E from \in 1..Len(doc) : \E to \in from..Len(doc) : Indent(FALSE, from, to)
  \/ \E from \in 1..Len(doc) : \E to \in from..Len(doc) :
       \E canConvert \in BOOLEAN : Dedent(FALSE, from, to, canConvert)
  \/ \E i \in 1..Len(doc) : \E off \in 0..Len(doc[i].content) :
       Paste(ResolveInBlock(doc, i, off))
  \/ Paste(ResolveAtTop(doc))

SpecSession == SessionInit /\ [][SessionNext]_vars

(* SpecSetStep: one Set command, of any list type and with any            *)
(* attributes, on any selection of a document of paragraphs and list      *)
(* items of the three types.                                              *)

SetBlocks ==
  {MkNode("paragraph", 0, 1, FALSE, FALSE, <<>>)}
    \cup {MkNode(t, n, 1, FALSE, FALSE, <<>>) :
            t \in {"ordered", "unordered"}, n \in 0..MaxIndent}
    \cup {MkNode("task", n, 1, c, FALSE, <<>>) : n \in 0..MaxIndent, c \in BOOLEAN}

SetStepInit ==
  /\ doc \in {WithContent(d) : d \in {s \in SeqsUpTo(SetBlocks, SetLen) : Len(s) > 0}}
  /\ last = NoOp
  /\ slice = <<>>

SetStepNext ==
  /\ Fresh
  /\ \E from \in 1..Len(doc) : \E to \in from..Len(doc) :
       \E t \in ListTypes : \E a \in CallerAttrs(t) : SetItem(TRUE, from, to, t, a)

SpecSetStep == SetStepInit /\ [][SetStepNext]_vars

(* SpecKeyStep: one key, Enter, Backspace or Delete, with the cursor at    *)
(* any offset of any block.  A block is empty or holds two characters, so *)
(* that the cursor can be at its start, in its middle and at its end.     *)

\* Block i of an initial document is empty or holds the characters 10i + 1
\* and 10i + 2.
WithText(d) ==
  [i \in 1..Len(d) |->
     [d[i] EXCEPT !.content = [k \in 1..Len(d[i].content) |-> 10 * i + k]]]

KeyBlocks ==
  {MkNode("paragraph", 0, 1, FALSE, FALSE, c) : c \in {<<>>, <<1, 2>>}}
    \cup {MkNode(t, n, 1, FALSE, FALSE, c) :
            t \in {"ordered", "unordered"}, n \in 0..KeyIndent, c \in {<<>>, <<1, 2>>}}
    \cup {MkNode("task", n, 1, ch, FALSE, c) :
            n \in 0..KeyIndent, ch \in BOOLEAN, c \in {<<>>, <<1, 2>>}}

KeyStepInit ==
  /\ doc \in {WithText(d) : d \in {s \in SeqsUpTo(KeyBlocks, KeyLen) : Len(s) > 0}}
  /\ last = NoOp
  /\ slice = <<>>

KeyStepNext ==
  \/ \E i \in 1..Len(doc) : \E off \in 0..Len(doc[i].content) :
       Fresh /\ Enter(TRUE, i, off)
  \/ \E i \in 1..Len(doc) : \E off \in 0..Len(doc[i].content) :
       Fresh /\ Backspace(TRUE, i, off)
  \/ \E i \in 1..Len(doc) : \E off \in 0..Len(doc[i].content) :
       Fresh /\ Delete(TRUE, i, off)

SpecKeyStep == KeyStepInit /\ [][KeyStepNext]_vars

(* SpecFold: the document is exported with getHTML or copied whole to the *)
(* clipboard, and the HTML is parsed again.  The documents are arbitrary  *)
(* sequences of paragraphs and list items, the staircase rule not         *)
(* assumed; their blocks all hold a character or are all empty.           *)

\* JoinListDOMSerializer.getHTML(editor)
GetHTML ==
  /\ last' = Hist(TRUE, "getHTML", TRUE, 1, Len(doc), JoinSerialize(doc, "getHTML"), doc)
  /\ UNCHANGED <<doc, slice>>

\* The clipboardSerializer on a selection of the whole document.
Copy ==
  /\ last' = Hist(TRUE, "clipboard", TRUE, 1, Len(doc), JoinSerialize(doc, "clipboard"), doc)
  /\ UNCHANGED <<doc, slice>>

\* The serialized HTML is parsed by the parse rules of the three list nodes.
ParseHTML ==
  /\ slice' = parseHTML(last.arg)
  /\ last' = Hist(TRUE, "parse", TRUE, 0, 0, FALSE, doc)
  /\ UNCHANGED doc

FoldDocs ==
  LET docs == {s \in SeqsUpTo(FoldBlocks, FoldLen) : Len(s) > 0}
  IN docs \cup {WithContent(d) : d \in docs}

FoldInit ==
  /\ doc \in FoldDocs
  /\ last = NoOp
  /\ slice = <<>>

FoldNext ==
  \/ Fresh /\ GetHTML
  \/ Fresh /\ Copy
  \/ last.op \in {"getHTML", "clipboard"} /\ ParseHTML

SpecFold == FoldInit /\ [][FoldNext]_vars

(* SpecExport: the postprocessor's pass on any sequence of blocks, then    *)
(* the serialization of the document it leaves.                            *)

ExportBlocks ==
  {MkNode("paragraph", 0, 1, FALSE, FALSE, <<>>)}
    \cup {MkNode(t, n, 1, FALSE, FALSE, <<>>) : t \in ListTypes, n \in 0..ExportIndent}

ExportInit ==
  /\ doc \in {WithContent(d) : d \in {s \in SeqsUpTo(ExportBlocks, ExportLen) : Len(s) > 0}}
  /\ last = NoOp
  /\ slice = <<>>

ExportNext ==
  \/ Fresh /\ PostPass
  \/ last.op = "pass" /\ GetHTML
  \/ last.op = "pass" /\ Copy

SpecExport == ExportInit /\ [][ExportNext]_vars

(* SpecToggleTwice: one Toggle command of any list type and attributes on *)
(* any selection, then the same command once more at the same selection.  *)
(* The document is as parsed or as a transaction left it, its blocks hold *)
(* a character or are empty.                                              *)

ToggleAttrs(listType) == {a \in CallerAttrs(listType) : a.indent <= ToggleIndent}

ToggleDocs ==
  LET docs == {s \in SeqsUpTo({b \in SetBlocks : b.indent <= ToggleIndent}, ToggleLen) :
                 Len(s) > 0}
      parsed == docs \cup {WithContent(d) : d \in docs}
  IN parsed \cup {Commit(d) : d \in parsed}

ToggleTwiceInit ==
  /\ doc \in ToggleDocs
  /\ last = NoOp
  /\ slice = <<>>

ToggleTwiceNext ==
  \/ /\ Fresh
     /\ \E from \in 1..Len(doc) : \E to \in from..Len(doc) :
          \E t \in ListTypes : \E a \in ToggleAttrs(t) : ToggleItem(TRUE, from, to, t, a)
  \/ /\ last.op = "toggle" /\ last.before.op = "init"
     /\ ToggleItem(TRUE, last.from, last.to, last.arg.type, last.arg.attrs)

SpecToggleTwice == ToggleTwiceInit /\ [][ToggleTwiceNext]_vars

(* SpecTab: a session of Indent and Dedent commands on arbitrary          *)
(* selections, from any document that satisfies the staircase rule.       *)

TabInit ==
  /\ doc \in {WithContent(d) : d \in {s \in SeqsUpTo(BlocksUpTo(TabIndent), TabLen) :
                                         Len(s) > 0 /\ Staircase(s)}}
  /\ last = NoOp
  /\ slice = <<>>

TabNext ==
  \/ \E from \in 1..Len(doc) : \E to \in from..Len(doc) : Indent(FALSE, from, to)
  \/ \E from \in 1..Len(doc) : \E to \in from..Len(doc) :
       \E canConvert \in BOOLEAN : Dedent(FALSE, from, to, canConvert)

SpecTab == TabInit /\ [][TabNext]_vars

(* SpecTabTwice: Indent and then Dedent(false), or Dedent(false) and then  *)
(* Indent, with the cursor in the same block of a document that satisfies  *)
(* the staircase rule; the second command runs when the first succeeded.   *)

TabTwiceInit ==
  /\ doc \in {Commit(WithContent(d)) :
                d \in {s \in SeqsUpTo(BlocksUpTo(TwiceIndent), TwiceLen) :
                         Len(s) > 0 /\ Staircase(s)}}
  /\ last = NoOp
  /\ slice = <<>>

TabTwiceNext ==
  \/ \E i \in 1..Len(doc) : Fresh /\ Indent(TRUE, i, i)
  \/ \E i \in 1..Len(doc) : Fresh /\ Dedent(TRUE, i, i, FALSE)
  \/ /\ last.op = "indent" /\ last.before.op = "init" /\ last.ok
     /\ Dedent(TRUE, last.from, last.to, FALSE)
  \/ /\ last.op = "dedent" /\ last.before.op = "init" /\ last.ok
     /\ Indent(TRUE, last.from, last.to)

SpecTabTwice == TabTwiceInit /\ [][TabTwiceNext]_vars

(* SpecRepeat: Dedent(canConvert) again and again with the cursor in the   *)
(* same block, on any document.                                            *)

RepeatInit ==
  /\ doc \in {Commit(WithContent(d)) :
                d \in {s \in SeqsUpTo(BlocksUpTo(RepeatIndent), RepeatLen) : Len(s) > 0}}
  /\ last = NoOp
  /\ slice = <<>>

RepeatNext ==
  \E i \in 1..Len(doc) : \E canConvert \in BOOLEAN :
    /\ Fresh \/ (last.from = i /\ last.arg = canConvert)
    /\ Dedent(TRUE, i, i, canConvert)

SpecRepeat == RepeatInit /\ [][RepeatNext]_vars

\* The same, with the step taken whenever there is one to take.
SpecRepeatFair == SpecRepeat /\ WF_vars(RepeatNext)

(* SpecTabStep: one Indent or Dedent command on any document.             *)

\* Indent and Dedent ask of a block only whether it is a list item: the
\* list items of these documents are ordered ones, which the pass renumbers.
StepBlocks ==
  {MkNode("paragraph", 0, 1, FALSE, FALSE, <<>>)}
    \cup {MkNode("ordered", n, 1, FALSE, FALSE, <<>>) : n \in 0..StepIndent}

TabStepInit ==
  /\ doc \in {WithContent(d) : d \in {s \in SeqsUpTo(StepBlocks, StepLen) : Len(s) > 0}}
  /\ last = NoOp
  /\ slice = <<>>

TabStepNext ==
  \/ \E from \in 1..Len(doc) : \E to \in from..Len(doc) :
       Fresh /\ Indent(TRUE, from, to)
  \/ \E from \in 1..Len(doc) : \E to \in from..Len(doc) :
       \E canConvert \in BOOLEAN : Fresh /\ Dedent(TRUE, from, to, canConvert)

SpecTabStep == TabStepInit /\ [][TabStepNext]_vars

-----------------------------------------------------------------------------
(* Claims about Indent and Dedent.                                        *)

Indents(d) == [i \in 1..Len(d) |-> IF isFlatListNode(d[i]) THEN d[i].indent ELSE -1]

\* C1: from a document that satisfies the staircase rule, after any
\* sequence of Indent and Dedent commands on any selection, every adjacent
\* pair of list items a, b still has b.indent <= a.indent + 1.
C1_StaircaseKept == Staircase(doc)

\* C1 witness: a Dedent has acted on a document of three list items and
\* left a step of exactly one.
C1_Witness ==
  /\ last.op = "dedent" /\ last.ok
  /\ Len(doc) = 3
  /\ \A i \in 1..3 : isFlatListNode(doc[i])
  /\ doc[2].indent = doc[1].indent + 1
  /\ doc[3].indent = doc[2].indent + 1

\* The last index of the maximal run of list items after x whose indent in
\* d is strictly greater than n (x itself when the run is empty).
DeeperRunEnd(d, x, n) ==
  CHOOSE j \in x..Len(d) :
    /\ \A m \in (x + 1)..j : isFlatListNode(d[m]) /\ d[m].indent > n
    /\ j < Len(d) => ~(isFlatListNode(d[j + 1]) /\ d[j + 1].indent > n)

\* Equal but for the indents and the counters.
SameButIndent(a, b) ==
  /\ Len(a) = Len(b)
  /\ \A m \in 1..Len(a) : a[m].type = b[m].type /\ a[m].content = b[m].content
                         /\ a[m].checked = b[m].checked /\ a[m].prop = b[m].prop

\* C9: Dedent of a single list item X at indent d > 0 lowers X and the
\* maximal run of following list items deeper than d by exactly 1, and
\* leaves every other block as it was.
C9_DedentCascade ==
  (/\ last.op = "dedent" /\ last.from = last.to
   /\ isFlatListNode(last.pre[last.from]) /\ last.pre[last.from].indent > 0)
  => LET x == last.from
         pre == last.pre
         j == DeeperRunEnd(pre, x, pre[x].indent)
     IN /\ last.ok
        /\ SameButIndent(pre, doc)
        /\ \A m \in 1..Len(pre) :
             doc[m].indent = IF m \in x..j THEN pre[m].indent - 1 ELSE pre[m].indent

\* C9 witness: indents 0, 1, 2, 2 with the second item dedented give
\* 0, 0, 1, 1.
C9_Witness ==
  /\ last.op = "dedent" /\ last.from = 2 /\ last.to = 2
  /\ Indents(last.pre) = <<0, 1, 2, 2>>
  /\ Indents(doc) = <<0, 0, 1, 1>>

\* The selected list items the command changes.
Affected(pre, from, to, canConvert) ==
  {m \in from..to : isFlatListNode(pre[m]) /\ (pre[m].indent > 0 \/ canConvert)}

SetMax(S) == CHOOSE x \in S : \A y \in S : y <= x

\* C10: with several list items selected, the cascade after the selection
\* is anchored at the last item the command changed (dedented or
\* converted); a selected item at indent 0 that canConvert = FALSE leaves
\* alone is no anchor, so the siblings after it keep their indent.
C10_AnchorIsLastAffected ==
  (last.op = "dedent" /\ last.ok /\ last.from < last.to)
  => LET pre == last.pre
         anchor == SetMax(Affected(pre, last.from, last.to, last.arg))
         j == DeeperRunEnd(pre, anchor, pre[anchor].indent)
     IN \A m \in (last.to + 1)..Len(pre) :
          doc[m].indent = IF m \in (anchor + 1)..j THEN pre[m].indent - 1
                          ELSE pre[m].indent

-----------------------------------------------------------------------------
(* Claims about the document after an edit.                               *)

\* C3 (as stated): the staircase rule holds of every committed document of
\* an editing session that starts from a document that satisfies it.
C3_StaircaseAlways == Staircase(doc)

\* The pass would rewrite nothing in d: every ordered item stores the
\* counter the pass computes for it, and no list item is propped.
Clean(d) == Postprocess(d).counters = {} /\ Postprocess(d).markers = {}

-----------------------------------------------------------------------------
(* Claims about the postprocessor's pass.                                 *)

\* The last block before k that satisfies Boundary (0: the container edge).
LastBoundary(d, k, Boundary(_)) ==
  SetMax({0} \cup {m \in 1..(k - 1) : Boundary(d[m])})

\* 1 + the ordered items at the indent of item k between b and k.
CountSince(d, k, b) ==
  1 + Cardinality({m \in (b + 1)..(k - 1) :
                     d[m].type = "ordered" /\ d[m].indent = d[k].indent})

\* C4 (as stated): after a pass, every ordered item's counter is 1 + the
\* number of ordered items at the same indent since the last non-ordered
\* list item at an indent <= that indent, or the container edge.  In the
\* claim's favour a block that is no list item counts as a container edge.
C4_CounterSinceNonOrdered ==
  last.op = "pass" =>
    \A k \in 1..Len(doc) :
      doc[k].type = "ordered" =>
        LET AsStated(b) == \/ ~isFlatListNode(b)
                           \/ b.type # "ordered" /\ b.indent <= doc[k].indent
        IN doc[k].counter = CountSince(doc, k, LastBoundary(doc, k, AsStated))

\* C4 (amended): the count restarts after a non-ordered list item at an
\* indent <= that indent, after any list item at a smaller indent, after a
\* block that is no list item, and at the container edge.
C4_CounterSinceReset ==
  last.op = "pass" =>
    \A k \in 1..Len(doc) :
      doc[k].type = "ordered" =>
        LET Resets(b) == \/ ~isFlatListNode(b)
                         \/ b.indent < doc[k].indent
                         \/ b.type # "ordered" /\ b.indent <= doc[k].indent
        IN doc[k].counter = CountSince(doc, k, LastBoundary(doc, k, Resets))

\* C4 witness: ordered items at indents 1, 0, 1 are numbered 1, 1, 1: the
\* item at indent 0 restarts the count of indent 1.
C4_Witness ==
  /\ last.op = "pass"
  /\ Len(doc) = 3
  /\ \A k \in 1..3 : doc[k].type = "ordered" /\ doc[k].counter = 1
  /\ Indents(doc) = <<1, 0, 1>>

RECURSIVE RefScan(_, _, _, _)
\* The reference scan: rec maps an indent level to its record (0: none),
\* out is the counter of each block scanned so far (0: no ordered item).
RefScan(d, k, rec, out) ==
  IF k > Len(d) THEN out
  ELSE LET i == d[k].indent
           v == rec[i] + 1
       IN IF d[k].type = "ordered"
          THEN RefScan(d, k + 1,
                 [j \in DOMAIN rec |-> IF j = i THEN v ELSE IF j > i THEN 0 ELSE rec[j]],
                 Append(out, v))
          ELSE IF isFlatListNode(d[k])
          THEN RefScan(d, k + 1,
                 [j \in DOMAIN rec |-> IF j >= i THEN 0 ELSE rec[j]], Append(out, 0))
          ELSE RefScan(d, k + 1, [j \in DOMAIN rec |-> 0], Append(out, 0))

RefCounters(d) == RefScan(d, 1, [j \in 0..(PostIndent + 1) |-> 0], <<>>)

\* C5: the counters a pass leaves on the ordered items are those of the
\* reference scan with one record per indent level, on every sequence of
\* blocks, those that violate the staircase rule included.
C5_CountersOfReferenceScan ==
  last.op = "pass" =>
    \A k \in 1..Len(doc) :
      doc[k].type = "ordered" => doc[k].counter = RefCounters(last.pre)[k]

\* C5 witness: a pass numbered ordered items at indents 0, 2, 2, which
\* violate the staircase rule, 1, 1, 2.
C5_Witness ==
  /\ last.op = "pass"
  /\ Len(doc) = 3
  /\ \A k \in 1..3 : doc[k].type = "ordered"
  /\ Indents(doc) = <<0, 2, 2>>
  /\ ~Staircase(last.pre)
  /\ <<doc[1].counter, doc[2].counter, doc[3].counter>> = <<1, 1, 2>>

\* C7: a second pass, on the document the first pass produced, rewrites no
\* counter, clears no marker, schedules no deletion and returns no
\* transaction.
C7_SecondPassIdle ==
  (last.op = "pass" /\ Len(last.arg) = 2) =>
    /\ last.arg[2] = [counters |-> {}, markers |-> {}, toDelete |-> <<>>]
    /\ ~last.ok
    /\ doc = last.pre

\* C7 witness: the first pass rewrote a counter, cleared a marker and
\* deleted a propping character; the second pass has run.
C7_Witness ==
  /\ last.op = "pass" /\ Len(last.arg) = 2
  /\ last.arg[1].counters # {}
  /\ last.arg[1].markers # {}
  /\ last.arg[1].toDelete # <<>>

-----------------------------------------------------------------------------
(* Claims about the paste plugin.                                         *)

\* The list item that holds the insertion point, if there is one.
PastedInItem == last.arg.depth > 0 /\ isFlatListNode(doc[last.from])

\* The insertion point is at the very start of its top-level block.
PastedAtStart == last.arg.depth > 0 /\ last.to = 0

\* C2 (as stated): in the processed fragment each list item has indent <=
\* (indent of the list item immediately before it) + 1, also between the
\* first and the second node when the first one is left unrewritten; the
\* item before a first node is the list item that holds the insertion
\* point.  In the claim's favour an unrewritten first node is compared
\* with nothing before it.
C2_FragmentStaircase ==
  last.op = "paste" =>
    /\ Staircase(slice)
    /\ (PastedInItem /\ PastedAtStart /\ isFlatListNode(slice[1]))
          => slice[1].indent <= doc[last.from].indent + 1

\* Whether the plugin rewrote the indent of node k of the fragment.
Rewritten(k) == isFlatListNode(slice[k]) /\ (k > 1 \/ PastedAtStart)

\* The indent the plugin last emitted before node k: that of the nearest
\* rewritten list item before k, else that of the list item holding the
\* insertion point, else -1.
EmittedBefore(k) ==
  IF \E m \in 1..(k - 1) : Rewritten(m)
  THEN slice[SetMax({m \in 1..(k - 1) : Rewritten(m)})].indent
  ELSE IF PastedInItem THEN doc[last.from].indent ELSE -1

\* C2 (amended): each list item the plugin rewrote has an indent in
\* 0..(the last emitted indent + 1); a first node left unrewritten keeps
\* its raw indent, whatever it is, and is not the predecessor of the
\* second node in this rule.
C2_RewrittenStaircase ==
  last.op = "paste" =>
    /\ \A k \in 1..Len(slice) :
         Rewritten(k) => slice[k].indent \in 0..(EmittedBefore(k) + 1)
    /\ (isFlatListNode(slice[1]) /\ ~PastedAtStart)
          => slice[1].indent = last.arg.raw[1].indent

\* C2 witness: raw indents 0, 1 pasted inside an item at indent 2, not at
\* its start: the first node keeps 0 and the second gets 3.
C2_Witness ==
  /\ last.op = "paste" /\ PastedInItem /\ ~PastedAtStart
  /\ doc[last.from].indent = 2
  /\ Indents(last.arg.raw) = <<0, 1>>
  /\ Indents(slice) = <<0, 3>>

RECURSIVE Recurrence(_, _, _)
\* e_k = min(max(e_{k-1} + r_k - r_{k-1}, 0), e_{k-1} + 1) for k >= 1,
\* as the sequence e_0, ..., e_n, from e_0 = seed.
Recurrence(raw, n, seed) ==
  IF n = 1 THEN <<seed>>
  ELSE LET e == Recurrence(raw, n - 1, seed)
           prev == e[n - 1]
       IN Append(e, Min(Max(prev + raw[n].indent - raw[n - 1].indent, 0), prev + 1))

AllListItems(s) == \A k \in 1..Len(s) : isFlatListNode(s[k])

\* The context indent c of the claim.
ContextOf == IF PastedInItem THEN doc[last.from].indent ELSE 0

-----------------------------------------------------------------------------
(* Claims about one Indent or Dedent command.                             *)

\* The indent of the sibling before block i of d, -1 when there is none or
\* it is no list item.
IndentBefore(d, i) == IF i > 1 /\ isFlatListNode(d[i - 1]) THEN d[i - 1].indent ELSE -1

\* C11: Indent raises the indent of a selected list item by exactly 1 if
\* and only if indent + 1 <= p + 1, p being the indent of the preceding
\* sibling as the command left it (-1 when there is none or it is no list
\* item); every other block keeps its type, content and indent.
C11_IndentRule ==
  last.op = "indent" =>
    LET pre == last.pre IN
    /\ SameButIndent(pre, doc)
    /\ \A i \in 1..Len(pre) :
         IF i \in last.from..last.to /\ isFlatListNode(pre[i])
              /\ pre[i].indent + 1 <= IndentBefore(doc, i) + 1
         THEN doc[i].indent = pre[i].indent + 1
         ELSE doc[i].indent = pre[i].indent

\* C11 witness: indents 0, 0, 0 fully selected become 0, 1, 1.
C11_Witness ==
  /\ last.op = "indent" /\ last.from = 1 /\ last.to = 3
  /\ Indents(last.pre) = <<0, 0, 0>>
  /\ Indents(doc) = <<0, 1, 1>>

\* Block i of the selection is a list item that Indent may raise, its
\* predecessor taken as it is before the command.
MayIndent(pre, i) ==
  isFlatListNode(pre[i]) /\ pre[i].indent + 1 <= IndentBefore(pre, i) + 1

\* A block of the selection changed its type or its indent.
ItemChanged(pre, post, from, to) ==
  \E i \in from..to : post[i].type # pre[i].type \/ post[i].indent # pre[i].indent

\* C12: Indent returns false and leaves the document as it was when no
\* selected list item meets the staircase condition (or none is selected),
\* Dedent(false) when every selected list item is at indent 0 (or none is
\* selected); each returns true exactly when it changed an item.
C12_NotApplicable ==
  last.op \in {"indent", "dedent"} =>
    LET pre == last.pre
        sel == last.from..last.to
    IN /\ ~last.ok => doc = pre
       /\ last.ok <=> ItemChanged(pre, doc, last.from, last.to)
       /\ last.op = "indent" => (last.ok <=> \E i \in sel : MayIndent(pre, i))
       /\ (last.op = "dedent" /\ ~last.arg)
            => (last.ok <=> \E i \in sel : isFlatListNode(pre[i]) /\ pre[i].indent > 0)

\* C12 witness: Dedent(false) on list items that are all at indent 0 has
\* returned false.
C12_Witness ==
  /\ last.op = "dedent" /\ ~last.arg /\ ~last.ok
  /\ last.from < last.to
  /\ \A i \in last.from..last.to : isFlatListNode(last.pre[i]) /\ last.pre[i].indent = 0

\* C13: Dedent(canConvert) lowers every selected list item at indent > 0 by
\* exactly 1; one at indent 0 becomes a paragraph if canConvert and keeps
\* its type and indent if not; no indent becomes negative.
C13_DedentPerItem ==
  last.op = "dedent" =>
    LET pre == last.pre IN
    /\ \A i \in last.from..last.to :
         isFlatListNode(pre[i]) =>
           IF pre[i].indent > 0
           THEN doc[i].type = pre[i].type /\ doc[i].indent = pre[i].indent - 1
           ELSE IF last.arg
           THEN doc[i].type = "paragraph" /\ doc[i].content = pre[i].content
           ELSE doc[i].type = pre[i].type /\ doc[i].indent = 0
    /\ \A i \in 1..Len(doc) : doc[i].indent >= 0

\* C13 witness: of two selected items at indents 1 and 0, Dedent(true)
\* lowered the first and converted the second.
C13_Witness ==
  /\ last.op = "dedent" /\ last.arg /\ last.from = 1 /\ last.to = 2
  /\ Indents(last.pre)[1] = 1 /\ Indents(last.pre)[2] = 0
  /\ doc[1].type = "ordered" /\ doc[1].indent = 0
  /\ doc[2].type = "paragraph"

-----------------------------------------------------------------------------
(* Claims about one Set command.                                          *)

\* Equal but for the counters, which the postprocessor writes.
SameButCounter(a, b) == [a EXCEPT !.counter = 1] = [b EXCEPT !.counter = 1]

\* C14: Set(type, attrs) gives every selected block the type; a block that
\* was a list item keeps its own indent when attrs.indent is not given and
\* takes attrs.indent when it is; a block that was none takes attrs.indent
\* or 0.  The content stays and the other blocks are unchanged.
C14_SetIndent ==
  last.op = "set" =>
    LET pre == last.pre
        attrs == last.arg.attrs
    IN /\ last.ok /\ Len(doc) = Len(pre)
       /\ \A i \in 1..Len(pre) :
            IF i \in last.from..last.to
            THEN /\ doc[i].type = last.arg.type
                 /\ doc[i].content = pre[i].content
                 /\ doc[i].indent = IF attrs.hasIndent THEN attrs.indent
                                    ELSE IF isFlatListNode(pre[i]) THEN pre[i].indent
                                    ELSE 0
            ELSE SameButCounter(doc[i], pre[i])

\* C14 witness: Set without an indent on two selected list items of
\* different indents and types: each kept its own indent.
C14_Witness ==
  /\ last.op = "set" /\ ~last.arg.attrs.hasIndent
  /\ last.from = 1 /\ last.to = 2
  /\ last.pre[1].type = "unordered" /\ last.pre[2].type = "task"
  /\ last.arg.type = "ordered"
  /\ Indents(last.pre) = <<1, 2>>
  /\ Indents(doc) = <<1, 2>>

\* C15: Set("task", attrs) on a task item keeps its checked value when
\* attrs.checked is not given and takes attrs.checked when it is; on an
\* ordered or unordered item without attrs.checked the result is unchecked.
C15_SetChecked ==
  (last.op = "set" /\ last.arg.type = "task") =>
    LET pre == last.pre
        attrs == last.arg.attrs
    IN \A i \in last.from..last.to :
         /\ doc[i].type = "task"
         /\ (pre[i].type = "task" /\ ~attrs.hasChecked) => doc[i].checked = pre[i].checked
         /\ (pre[i].type = "task" /\ attrs.hasChecked) => doc[i].checked = attrs.checked
         /\ (pre[i].type \in {"ordered", "unordered"} /\ ~attrs.hasChecked)
              => ~doc[i].checked

\* C15 witness: Set("task") without checked on a checked task item and an
\* ordered item: the first is still checked, the second is unchecked.
C15_Witness ==
  /\ last.op = "set" /\ last.arg.type = "task" /\ ~last.arg.attrs.hasChecked
  /\ last.from = 1 /\ last.to = 2
  /\ last.pre[1].type = "task" /\ last.pre[1].checked
  /\ last.pre[2].type = "ordered"
  /\ doc[1].checked /\ ~doc[2].checked /\ doc[2].type = "task"

-----------------------------------------------------------------------------
(* Claims about Toggle.                                                   *)

\* C16: Toggle(T) on paragraphs and then Toggle(T) again at the same
\* selection leaves the selected blocks paragraphs with their original
\* content, and every other block as it was: the document is the original
\* one as a transaction leaves it, so the original one itself when a
\* transaction had left it.
C16_ToggleTwice ==
  (/\ last.op = "toggle" /\ last.before.op = "toggle"
   /\ \A i \in last.from..last.to : last.before.pre[i].type = "paragraph")
    => LET orig == last.before.pre IN
       /\ Len(doc) = Len(orig)
       /\ \A i \in 1..Len(orig) :
            IF i \in last.from..last.to
            THEN doc[i] = orig[i]
            ELSE SameButCounter(doc[i], orig[i])
       /\ doc = Commit(orig)
       /\ Commit(orig) = orig => doc = orig

\* C16 witness: the paragraph before an ordered item was toggled to an
\* ordered item, which renumbered the item after it, and toggled back.
C16_Witness ==
  /\ last.op = "toggle" /\ last.before.op = "toggle"
  /\ last.from = 1 /\ last.to = 1 /\ Len(doc) = 2
  /\ last.before.pre[1].type = "paragraph" /\ last.before.pre[1].content = <<1>>
  /\ last.pre[1].type = "ordered" /\ last.pre[2].type = "ordered"
  /\ last.pre[2].counter = 2
  /\ doc[1].type = "paragraph" /\ doc[2].counter = 1
  /\ doc = last.before.pre

-----------------------------------------------------------------------------
(* Claims about the serializer and the parse rules.                       *)

\* Blocks a..b of d are a run of list items, with no list item next to it
\* on either side, the first at indent 0, each next one at most one deeper
\* than the one before it.
StaircaseRun(d, a, b) ==
  /\ \A k \in a..b : isFlatListNode(d[k])
  /\ a > 1 => ~isFlatListNode(d[a - 1])
  /\ b < Len(d) => ~isFlatListNode(d[b + 1])
  /\ d[a].indent = 0
  /\ \A k \in a..(b - 1) : d[k + 1].indent <= d[k].indent + 1

Types(d) == [k \in 1..Len(d) |-> d[k].type]

\* C17: getHTML and then parsing gives as many blocks as there were, and
\* for every run of list items that is folded on its own (the whole
\* document, or what lies between two blocks that are no list items),
\* begins at indent 0 and keeps the staircase rule, the parsed items of the
\* run have the indents and the list types of the original ones, in the
\* original order.
C17_FoldParseRoundTrip ==
  (last.op = "parse" /\ last.before.op = "getHTML") =>
    LET orig == last.before.pre IN
    /\ Len(slice) = Len(orig)
    /\ \A a \in 1..Len(orig) : \A b \in a..Len(orig) :
         StaircaseRun(orig, a, b) =>
           \A k \in a..b : slice[k].indent = orig[k].indent /\ slice[k].type = orig[k].type

\* C17 witness: unordered items at indents 0, 1, 1 were folded into one outer
\* list whose single item holds a list of two items, none carrying the
\* indent attribute, and parsed back to unordered items at 0, 1, 1.
C17_Witness ==
  /\ last.op = "parse" /\ last.before.op = "getHTML"
  /\ Indents(last.before.pre) = <<0, 1, 1>>
  /\ Types(last.before.pre) = <<"unordered", "unordered", "unordered">>
  /\ last.before.arg.top = <<1>>
  /\ last.before.arg.items[1] = <<1>>
  /\ last.before.arg.nested[1] = <<2>>
  /\ last.before.arg.items[2] = <<2, 3>>
  /\ \A k \in 1..3 : last.before.arg.dataIndent[k] = -1
  /\ Indents(slice) = <<0, 1, 1>>
  /\ Types(slice) = <<"unordered", "unordered", "unordered">>

-----------------------------------------------------------------------------
(* Claims about one key.                                                   *)

\* Backspace was pressed at the start of block i, which follows an empty
\* list item.
BackspaceAfterEmptyItem ==
  /\ last.op = "backspace" /\ last.arg = 0 /\ last.from > 1
  /\ isFlatListNode(last.pre[last.from - 1])
  /\ last.pre[last.from - 1].content = <<>>

\* Block i of pre was merged into the empty item before it, which kept its
\* type and attributes; the other blocks are as they were.
MergedIntoEmptyItem(pre, post, i) ==
  /\ Len(post) = Len(pre) - 1
  /\ SameButCounter(post[i - 1], [pre[i - 1] EXCEPT !.content = pre[i].content])
  /\ \A m \in 1..(i - 2) : SameButCounter(post[m], pre[m])
  /\ \A m \in (i + 1)..Len(pre) : SameButCounter(post[m - 1], pre[m])

EnterInEmptyItem ==
  /\ last.op = "enter"
  /\ isFlatListNode(last.pre[last.from])
  /\ last.pre[last.from].content = <<>>

\* C19: Enter in an empty list item is Dedent(true) on it.  No block is
\* created; at indent n > 0 the item goes to n - 1, at indent 0 it becomes a
\* paragraph; the list items that follow it and are deeper than n, up to
\* the first block that is not, go one level up; nothing else changes.
C19_EnterInEmptyItem ==
  EnterInEmptyItem =>
    LET pre == last.pre
        x == last.from
        n == pre[x].indent
        j == DeeperRunEnd(pre, x, n)
    IN /\ last.ok
       /\ Len(doc) = Len(pre)
       /\ n > 0 => (doc[x].type = pre[x].type /\ doc[x].indent = n - 1)
       /\ n = 0 => doc[x].type = "paragraph"
       /\ doc[x].content = <<>>
       /\ \A m \in (x + 1)..j :
            SameButCounter(doc[m], [pre[m] EXCEPT !.indent = pre[m].indent - 1])
       /\ \A m \in (1..Len(pre)) \ (x..j) : SameButCounter(doc[m], pre[m])
       /\ doc = Commit(dedentFlatListItem(pre, x, x, TRUE).doc)

\* C19 witness: Enter in an empty item at indent 1 followed by an item at
\* indent 2: both went one level up and no item was created.
C19_Witness ==
  /\ EnterInEmptyItem
  /\ last.from = 1 /\ Len(last.pre) = 2
  /\ Indents(last.pre) = <<1, 2>>
  /\ Indents(doc) = <<0, 1>>
  /\ doc[1].type = last.pre[1].type

\* C20: Enter at the start or at the end of a list item that is not empty
\* inserts one empty list item of the same type, indent and checked value,
\* before the item when the cursor is at the start and after it when at the
\* end; the item keeps its content, the other blocks are as they were.
\* Enter in the middle of an item is not handled.
C20_EnterAtEdge ==
  (/\ last.op = "enter"
   /\ isFlatListNode(last.pre[last.from])
   /\ last.pre[last.from].content # <<>>)
    => LET pre == last.pre
           i == last.from
           off == last.arg
           new == IF off = 0 THEN i ELSE i + 1
           cur == IF off = 0 THEN i + 1 ELSE i
       IN IF off = 0 \/ off = Len(pre[i].content)
          THEN /\ last.ok
               /\ Len(doc) = Len(pre) + 1
               /\ SameButCounter(doc[new], [pre[i] EXCEPT !.content = <<>>])
               /\ SameButCounter(doc[cur], pre[i])
               /\ \A m \in 1..(i - 1) : SameButCounter(doc[m], pre[m])
               /\ \A m \in (i + 1)..Len(pre) : SameButCounter(doc[m + 1], pre[m])
          ELSE ~last.ok /\ doc = pre

\* C20 witness: Enter at the start of a checked task item at indent 1
\* inserted an empty checked task item at indent 1 before it.
C20_Witness ==
  /\ last.op = "enter" /\ last.from = 2 /\ last.arg = 0
  /\ Len(last.pre) = 2 /\ Len(doc) = 3
  /\ last.pre[2].type = "task" /\ last.pre[2].checked /\ last.pre[2].indent = 1
  /\ last.pre[2].content = <<21, 22>>
  /\ doc[2].type = "task" /\ doc[2].checked /\ doc[2].indent = 1 /\ doc[2].content = <<>>
  /\ doc[3].content = <<21, 22>>


\* C21: Delete in an empty list item that has a following block merges
\* that block into the item: one block with the item's type and attributes
\* and the following block's content, one block fewer, the rest as it was.
\* In an empty list item that is the last block the handler does nothing.
C21_DeleteInEmptyItem ==
  (/\ last.op = "delete"
   /\ isFlatListNode(last.pre[last.from])
   /\ last.pre[last.from].content = <<>>)
    => IF last.from < Len(last.pre)
       THEN last.ok /\ MergedIntoEmptyItem(last.pre, doc, last.from + 1)
       ELSE ~last.ok /\ doc = last.pre

\* C21 witness: Delete in an empty ordered item at indent 1 before a
\* paragraph: one ordered item at indent 1 with the paragraph's text.
C21_Witness ==
  /\ last.op = "delete" /\ last.from = 1 /\ Len(last.pre) = 2
  /\ last.pre[1].type = "ordered" /\ last.pre[1].indent = 1
  /\ last.pre[1].content = <<>>
  /\ last.pre[2].type = "paragraph" /\ last.pre[2].content = <<21, 22>>
  /\ Len(doc) = 1
  /\ doc[1].type = "ordered" /\ doc[1].indent = 1 /\ doc[1].content = <<21, 22>>

-----------------------------------------------------------------------------
(* Claims about joinListElements alone.                                   *)

\* The document was serialized, for getHTML or for the clipboard.
Folded == last.op \in {"getHTML", "clipboard"}

\* The wrapper that holds item li.
WrapperOf(dom, li) ==
  CHOOSE w \in 1..Len(dom.items) : \E p \in 1..Len(dom.items[w]) : dom.items[w][p] = li

\* Block m ends a list of type T at indent i.
Separates(node, i, T) ==
  \/ ~isFlatListNode(node)
  \/ node.indent < i
  \/ (node.indent = i /\ node.type # T)

\* C22: two list items of the same indent i and the same type T are items
\* of the same wrapper of the output exactly when no block between them is
\* a non-list block, a list item at an indent below i, or a list item at
\* indent i of another type; deeper items between them do not separate them.
C22_SameWrapper ==
  Folded =>
    LET pre == last.pre
        dom == last.arg
    IN \A x \in 1..Len(pre) : \A y \in (x + 1)..Len(pre) :
         (/\ isFlatListNode(pre[x]) /\ isFlatListNode(pre[y])
          /\ pre[x].indent = pre[y].indent /\ pre[x].type = pre[y].type)
           => (WrapperOf(dom, x) = WrapperOf(dom, y)
                 <=> ~\E m \in (x + 1)..(y - 1) :
                        Separates(pre[m], pre[x].indent, pre[x].type))

\* C22 witness: unordered items at indents 0, 1, 0: the deeper item between
\* them did not separate the first and the third, which share a wrapper.
C22_Witness ==
  /\ Folded
  /\ Indents(last.pre) = <<0, 1, 0>>
  /\ Types(last.pre) = <<"unordered", "unordered", "unordered">>
  /\ last.arg.items[1] = <<1, 3>>
  /\ last.arg.nested[1] = <<2>>

\* The loop states of the serialization that was done.
FoldTrace ==
  JoinTrace([dom |-> serializeFragment(last.pre), i |-> 1, lastLists |-> <<>>], last.op)

\* The list items before block cur that are at indent j with nothing but
\* list items at indents >= j between them and cur.
OpenAt(pre, cur, j) ==
  {m \in 1..(cur - 1) :
     /\ isFlatListNode(pre[m]) /\ pre[m].indent = j
     /\ \A q \in (m + 1)..(cur - 1) : isFlatListNode(pre[q]) /\ pre[q].indent >= j}

\* C23: the scan visits the rendered elements in their order, each once.
\* The wrapper recorded at an indent is the one of the most recent item at
\* that indent with no non-list block and no shallower item since.  A
\* wrapper that starts a new list at indent i > 0 is appended inside the
\* last item of the wrapper recorded at indent i - 1 when there is one, and
\* otherwise stays at the top level; either way it is then the wrapper
\* recorded at indent i, and no deeper record is left.
C23_NestAndVisit ==
  Folded =>
    LET pre == last.pre
        trace == FoldTrace
        steps == Len(trace) - 1
    IN /\ steps = Len(pre)
       /\ \A t \in 1..steps : trace[t].dom.top[trace[t].i] = t
       /\ \A t \in 1..steps :
            LET st == trace[t]
                nx == trace[t + 1]
                i == pre[t].indent
                parent == ArrGet(st.lastLists, i - 1)
            IN (isFlatListNode(pre[t]) /\ nx.dom.items[t] # <<>>) =>
                 /\ \A j \in 0..(Len(st.lastLists) - 1) :
                      ArrGet(st.lastLists, j) =
                        IF OpenAt(pre, t, j) = {} THEN 0
                        ELSE WrapperOf(st.dom, SetMax(OpenAt(pre, t, j)))
                 /\ IF i > 0 /\ OpenAt(pre, t, i - 1) # {}
                    THEN LET item == st.dom.items[parent][Len(st.dom.items[parent])]
                         IN /\ \A p \in 1..Len(nx.dom.top) : nx.dom.top[p] # t
                            /\ nx.dom.nested[item] = Append(st.dom.nested[item], t)
                    ELSE /\ nx.dom.top = st.dom.top
                         /\ nx.dom.nested = st.dom.nested
                 /\ ArrGet(nx.lastLists, i) = t
                 /\ Len(nx.lastLists) = i + 1

\* C23 witness: an ordered item at indent 0, then an unordered and an
\* ordered one at indent 1: the third starts a new list inside the first
\* item, after the wrapper of the second, and the top level holds one
\* element.
C23_Witness ==
  /\ Folded
  /\ Indents(last.pre) = <<0, 1, 1>>
  /\ Types(last.pre) = <<"ordered", "unordered", "ordered">>
  /\ last.arg.top = <<1>>
  /\ last.arg.nested[1] = <<2, 3>>

RECURSIVE ItemsOf(_, _, _)
RECURSIVE ItemsIn(_, _)
\* The items of the serialized output in document order: an item, then the
\* items of the wrappers inside it.
ItemsOf(dom, lis, k) ==
  IF k > Len(lis) THEN <<>>
  ELSE <<lis[k]>> \o ItemsIn(dom, dom.nested[lis[k]]) \o ItemsOf(dom, lis, k + 1)

ItemsIn(dom, ws) ==
  IF ws = <<>> THEN <<>>
  ELSE ItemsOf(dom, dom.items[Head(ws)], 1) \o ItemsIn(dom, Tail(ws))

\* The blocks of the output in document order.
DomOrder(dom) ==
  LET RECURSIVE Top(_)
      Top(p) == IF p > Len(dom.top) THEN <<>>
                ELSE (IF dom.tag[dom.top[p]] = "P" THEN <<dom.top[p]>>
                      ELSE ItemsIn(dom, <<dom.top[p]>>)) \o Top(p + 1)
  IN Top(1)

\* C24: after getHTML no item carries the indent attribute; after the
\* serialization for the clipboard every item carries it with the indent
\* of its block, and parsing the clipboard output gives every item the
\* indent of the block it was rendered from.
C24_IndentAttribute ==
  /\ Folded =>
       \A k \in 1..Len(last.pre) :
         isFlatListNode(last.pre[k]) =>
           last.arg.dataIndent[k] = IF last.op = "getHTML" THEN -1 ELSE last.pre[k].indent
  /\ (last.op = "parse" /\ last.before.op = "clipboard") =>
       LET orig == last.before.pre
           order == DomOrder(last.before.arg)
       IN /\ Len(slice) = Len(orig)
          /\ \A p \in 1..Len(slice) :
               isFlatListNode(orig[order[p]]) => slice[p].indent = orig[order[p]].indent

\* C24 witness: unordered items at indents 1, 0, 1 copied to the clipboard
\* and parsed again are items at indents 1, 0, 1.
C24_Witness ==
  /\ last.op = "parse" /\ last.before.op = "clipboard"
  /\ Indents(last.before.pre) = <<1, 0, 1>>
  /\ \A k \in 1..3 : last.before.arg.dataIndent[k] = last.before.pre[k].indent
  /\ Indents(slice) = <<1, 0, 1>>

-----------------------------------------------------------------------------
(* Further claims about the paste plugin.                                 *)

\* The indent of the list item that holds the insertion point, -1 when no
\* list item does: the last-emitted indent the loop starts from.
LastIndentOf == IF PastedInItem THEN doc[last.from].indent ELSE -1

\* C25: a first node that is a list item keeps its raw indent when the
\* insertion point is not at the very start of a top-level block, and a
\* list item that follows it is shifted by (context indent - raw indent of
\* the first node) and clamped into 0..(indent of the containing item + 1),
\* 0..0 outside a list item.  At the very start the first node gets the
\* context indent and the second is clamped against that.
C25_FirstNode ==
  (last.op = "paste" /\ isFlatListNode(last.arg.raw[1])) =>
    LET raw == last.arg.raw
        shift == ContextOf - raw[1].indent
    IN IF PastedAtStart
       THEN /\ slice[1].indent = ContextOf
            /\ (Len(raw) > 1 /\ isFlatListNode(raw[2])) =>
                 slice[2].indent = Min(Max(raw[2].indent + shift, 0), ContextOf + 1)
       ELSE /\ slice[1].indent = raw[1].indent
            /\ (Len(raw) > 1 /\ isFlatListNode(raw[2])) =>
                 slice[2].indent = Min(Max(raw[2].indent + shift, 0), LastIndentOf + 1)

\* C25 witness: raw indents 2, 3 pasted into an item at indent 0, not at
\* its start: the first node keeps 2, the second is shifted by -2 to 1.
C25_Witness ==
  /\ last.op = "paste" /\ PastedInItem /\ ~PastedAtStart
  /\ doc[last.from].indent = 0
  /\ Indents(last.arg.raw) = <<2, 3>>
  /\ Indents(slice) = <<2, 1>>

\* C26: the first list item after a non-list node of the fragment gets
\* indent 0, whatever its raw indent and the context indent; a list item
\* right after it is shifted by that run's own shift, that is to
\* min(max(its raw indent - the run's first raw indent, 0), 1); the non-list
\* nodes are as they were.
C26_RunAfterNonList ==
  last.op = "paste" =>
    LET raw == last.arg.raw IN
    \A k \in 1..Len(raw) :
      IF ~isFlatListNode(raw[k])
      THEN /\ slice[k] = raw[k]
           /\ (k < Len(raw) /\ isFlatListNode(raw[k + 1])) =>
                /\ slice[k + 1].indent = 0
                /\ (k + 1 < Len(raw) /\ isFlatListNode(raw[k + 2])) =>
                     slice[k + 2].indent =
                       Min(Max(raw[k + 2].indent - raw[k + 1].indent, 0), 1)
      ELSE isFlatListNode(slice[k])

\* C26 witness: raw indent 0, a paragraph, raw indent 3 pasted at the start
\* of an item at indent 2: the first gets 2, the item after the paragraph 0.
C26_Witness ==
  /\ last.op = "paste" /\ PastedInItem /\ PastedAtStart
  /\ doc[last.from].indent = 2
  /\ Len(slice) = 3
  /\ isFlatListNode(slice[1]) /\ ~isFlatListNode(slice[2]) /\ isFlatListNode(slice[3])
  /\ last.arg.raw[1].indent = 0 /\ last.arg.raw[3].indent = 3
  /\ slice[1].indent = 2 /\ slice[3].indent = 0


-----------------------------------------------------------------------------
(* Claims about what the postprocessor leaves alone                        *)

\* The marked items of a document.
Marked(d) == {k \in 1..Len(d) : isFlatListNode(d[k]) /\ d[k].prop}

\* C28: when several items are marked in the same pass, the pass removes
\* exactly the first content character of each marked item: a marked item
\* keeps the rest of its content, and an unmarked block keeps all of it.
C28_MarkedChars ==
  last.op = "pass" =>
    /\ Len(doc) = Len(last.pre)
    /\ \A k \in 1..Len(doc) :
         doc[k].content = IF k \in Marked(last.pre)
                          THEN Tail(last.pre[k].content)
                          ELSE last.pre[k].content

\* A pass has acted on a document with a marked item that holds text after
\* the propping character, a later marked item, and an unmarked one
\* between them.
C28_Witness ==
  /\ last.op = "pass"
  /\ \E a, b, c \in 1..Len(doc) :
       /\ a < b /\ b < c
       /\ {a, c} \subseteq Marked(last.pre)
       /\ b \notin Marked(last.pre)
       /\ Len(last.pre[a].content) = 2
       /\ doc[a].content = <<1>>
       /\ doc[b].content = last.pre[b].content
       /\ doc[c].content = <<>>

\* C29: a pass changes nothing of a block but its counter, its marker and
\* the propping character of a marked item: it keeps the number and the
\* order of the blocks, and each block's type, indent and checked state, so
\* a document that breaks the staircase rule still breaks it afterwards.
C29_Frame ==
  last.op = "pass" =>
    /\ Len(doc) = Len(last.pre)
    /\ \A k \in 1..Len(doc) :
         /\ doc[k].type = last.pre[k].type
         /\ doc[k].indent = last.pre[k].indent
         /\ doc[k].checked = last.pre[k].checked
         /\ \/ doc[k].content = last.pre[k].content
            \/ /\ k \in Marked(last.pre)
               /\ doc[k].content = Tail(last.pre[k].content)
         /\ k \notin Marked(last.pre) => doc[k].prop = last.pre[k].prop
         /\ doc[k].type # "ordered" => doc[k].counter = last.pre[k].counter
    /\ Staircase(doc) <=> Staircase(last.pre)

\* A pass has rewritten a document that breaks the staircase rule and in
\* which a checked task item is marked.
C29_Witness ==
  /\ last.op = "pass"
  /\ last.ok
  /\ ~Staircase(last.pre)
  /\ ~Staircase(doc)
  /\ \E k \in Marked(last.pre) :
       /\ last.pre[k].type = "task"
       /\ last.pre[k].checked
       /\ doc[k].checked
       /\ ~doc[k].prop


\* C30: the pass covers list items at every depth: after it, the ordered
\* children of a container block hold the counters of a sequence that
\* starts afresh at the container's start, and none of them is marked.
C30_EveryDepth ==
  last.op = "pass" =>
    \A k \in 1..Len(doc) :
      isContainer(last.pre[k]) =>
        LET scanned == Commit(last.pre[k].children) IN
        \A j \in 1..Len(doc[k].children) :
          /\ doc[k].children[j].counter = scanned[j].counter
          /\ ~doc[k].children[j].prop


-----------------------------------------------------------------------------
(* Claims about propped nodes in a pasted slice                            *)

\* C27: when the first node of a pasted slice is a marked list item, the
\* returned slice's first node is unmarked, holds the content without its
\* first character, and has the indent the normalization gave it (the
\* target's context indent for a paste at the very start of a block, its
\* own otherwise); every other node keeps its marker and its content; and
\* once the paste is committed no block of the document is marked or holds
\* a propping character.
C27_ProppedFirst ==
  /\ last.op = "paste" =>
       LET raw == last.arg.raw
           pre == last.pre
           atStart == last.arg.depth = 1 /\ last.to = 0
           context == IF isFlatListNode(pre[last.from]) THEN pre[last.from].indent
                      ELSE 0
       IN /\ Len(slice) = Len(raw)
          /\ (isFlatListNode(raw[1]) /\ raw[1].prop) =>
               /\ ~slice[1].prop
               /\ slice[1].content = Tail(raw[1].content)
               /\ slice[1].indent = IF atStart THEN context ELSE raw[1].indent
          /\ \A k \in 2..Len(raw) :
               /\ slice[k].prop = raw[k].prop
               /\ slice[k].content = raw[k].content
  /\ last.op = "pasted" =>
       \A k \in 1..Len(doc) :
         /\ ~doc[k].prop
         /\ \A c \in 1..Len(doc[k].content) : doc[k].content[c] # NBSP

\* A slice of two marked items has been pasted in the middle of a list
\* item and committed: the target holds its text up to the cursor and the
\* first node's text, the second node's block the rest, and neither is
\* marked.
C27_Witness ==
  /\ last.op = "pasted"
  /\ last.to = 1
  /\ Len(last.before.arg.raw) = 2
  /\ \A k \in 1..2 : last.before.arg.raw[k].prop
  /\ Len(last.before.arg.raw[1].content) = 2
  /\ ~last.arg[1].prop
  /\ last.arg[2].prop
  /\ Len(doc) = 2
  /\ doc[1].type = "unordered"
  /\ doc[1].content = <<7, 1>>
  /\ doc[2].content = <<8>>
  /\ ~doc[2].prop


-----------------------------------------------------------------------------
(* Claims about the import of an li                                        *)

\* The text is a decimal integer with nothing around it: an optional minus
\* sign and one or two of the digits 0 and 2.
PlainInteger(text, v) ==
  LET digits == IF text # <<>> /\ Head(text) = "-" THEN Tail(text) ELSE text
      sign == IF text # <<>> /\ Head(text) = "-" THEN -1 ELSE 1
      val == [c \in {"0", "2"} |-> IF c = "0" THEN 0 ELSE 2]
  IN /\ Len(digits) \in 1..2
     /\ \A k \in 1..Len(digits) : digits[k] \in {"0", "2"}
     /\ v = sign * (IF Len(digits) = 1 THEN val[digits[1]]
                    ELSE 10 * val[digits[1]] + val[digits[2]])

\* The number of ol/ul elements among the ancestors.
ListAncestors(chain) == Cardinality({k \in 1..Len(chain) : chain[k] \in {"UL", "OL"}})

\* C31: an imported item's indent is the integer of its indent attribute
\* when the attribute parses as an integer (a plain decimal integer is read
\* as itself), and otherwise the number of ancestor ol/ul elements less
\* one, at least 0; the inferred indent is a natural number.
C31_ImportedIndent ==
  last.op = "import" =>
    LET indent == doc[1].indent
        stored == last.arg
    IN /\ stored.ok => indent = stored.v
       /\ \A v \in -22..22 :
            (slice.attr.present /\ PlainInteger(slice.attr.text, v))
              => (stored.ok /\ indent = v)
       /\ ~slice.attr.present => ~stored.ok
       /\ ~stored.ok =>
            /\ indent = Max(ListAncestors(slice.chain) - 1, 0)
            /\ indent \in Nat

\* An li without the attribute inside two lists has been imported at
\* indent 1.
C31_Witness ==
  /\ last.op = "import"
  /\ ~slice.attr.present
  /\ ListAncestors(slice.chain) = 2
  /\ doc[1].indent = 1


-----------------------------------------------------------------------------
(* Claims about sessions of Indent, Dedent and paste                       *)

\* C32: after any sequence of Indent and Dedent commands and pastes of
\* fragments with arbitrary raw indents, every list item of the document
\* has an indent that is a natural number.
C32_IndentsNatural ==
  \A k \in 1..Len(doc) : isFlatListNode(doc[k]) => doc[k].indent \in Nat


-----------------------------------------------------------------------------
(* Further claims about joinListElements                                   *)

\* C33: the blocks of the folded output, read in document order, are the
\* blocks of the input in their order, each once, whatever the indents of
\* the input.
C33_OrderKept ==
  Folded => DomOrder(last.arg) = [k \in 1..Len(last.pre) |-> k]


-----------------------------------------------------------------------------
(* Claims about the postprocessor and the folder together                  *)

\* C34: when a document is serialized after the postprocessor's pass, each
\* ordered item is in an ol without a start attribute, at the position its
\* counter says: the numbering an ol shows is the one the counters give.
C34_CounterIsPosition ==
  (Folded /\ last.before.op = "pass") =>
    \A k \in 1..Len(doc) :
      doc[k].type = "ordered" =>
        LET w == WrapperOf(last.arg, k) IN
        /\ last.arg.tag[w] = "OL"
        /\ last.arg.start[w] = -1
        /\ doc[k].counter \in 1..Len(last.arg.items[w])
        /\ last.arg.items[w][doc[k].counter] = k

\* A document with ordered items at indents 0, 1, 0 was renumbered and
\* serialized: the third item has counter 2 and is the second item of the
\* first item's ol.
C34_Witness ==
  /\ Folded /\ last.before.op = "pass"
  /\ Len(doc) = 3
  /\ \A k \in 1..3 : doc[k].type = "ordered"
  /\ Indents(doc) = <<0, 1, 0>>
  /\ doc[3].counter = 2
  /\ last.arg.items[1] = <<1, 3>>
  /\ last.arg.nested[1] = <<2>>


-----------------------------------------------------------------------------
(* Claims about Indent and Dedent in a row                                 *)

\* Block j is a descendant of block i: the blocks from i + 1 to j are list
\* items deeper than block i.
DescendantOf(d, i, j) ==
  /\ i < j
  /\ \A m \in (i + 1)..j : isFlatListNode(d[m]) /\ d[m].indent > d[i].indent

\* C35: on a document that satisfies the staircase rule, Dedent(false)
\* after a successful Indent in the same item succeeds, changes no other
\* block's indent, and gives every item the indent it had before the Indent.  In
\* the other order, a successful Indent after a successful Dedent(false)
\* restores the item's own indent and leaves each of its descendants one
\* level higher than it was, so these are not restored.
C35_IndentThenDedent ==
  /\ (last.op = "dedent" /\ last.before.op = "indent") =>
       /\ last.ok
       /\ \A j \in 1..Len(doc) : j # last.from => Indents(doc)[j] = Indents(last.pre)[j]
       /\ Indents(doc) = Indents(last.before.pre)
  /\ (last.op = "indent" /\ last.before.op = "dedent" /\ last.ok) =>
       LET orig == last.before.pre
           i == last.from
       IN /\ doc[i].indent = orig[i].indent
          /\ \A j \in 1..Len(doc) :
               j # i => Indents(doc)[j] = IF DescendantOf(orig, i, j)
                                          THEN orig[j].indent - 1
                                          ELSE Indents(orig)[j]

\* The second of three items at indents 0, 0, 1 was indented and then
\* dedented: the indents are 0, 0, 1 again.
C35_Witness ==
  /\ last.op = "dedent" /\ last.before.op = "indent"
  /\ last.from = 2
  /\ Indents(last.before.pre) = <<0, 0, 1>>
  /\ Indents(last.pre) = <<0, 1, 1>>
  /\ Indents(doc) = <<0, 0, 1>>

\* The second of three items at indents 0, 1, 2 was dedented and then
\* indented: the indents are 0, 1, 1.
C35_WitnessReverse ==
  /\ last.op = "indent" /\ last.before.op = "dedent" /\ last.ok
  /\ last.from = 2
  /\ Indents(last.before.pre) = <<0, 1, 2>>
  /\ Indents(doc) = <<0, 1, 1>>


-----------------------------------------------------------------------------
(* Claims about repeating Dedent                                           *)

\* What is left to dedent of a block: a list item at indent n can be
\* dedented n times and then converted; a block of another type not at all.
Rank(node, canConvert) ==
  IF ~isFlatListNode(node) THEN 0
  ELSE node.indent + (IF canConvert THEN 1 ELSE 0)

\* C36: repeating Dedent(canConvert) in the same block terminates.  Each
\* application with something left succeeds and lowers the item by
\* exactly one level, or converts an item at indent 0 to a paragraph if
\* canConvert: n times for an item at indent n, and once more to convert
\* it.  With nothing left the command is not applicable and changes
\* nothing.
C36_RepeatedDedent ==
  last.op = "dedent" =>
    LET i == last.from
        before == last.pre[i]
    IN IF Rank(before, last.arg) = 0
       THEN ~last.ok /\ doc = last.pre
       ELSE /\ last.ok
            /\ Rank(doc[i], last.arg) \in Nat
            /\ Rank(doc[i], last.arg) = Rank(before, last.arg) - 1
            /\ IF before.indent > 0
               THEN doc[i].type = before.type /\ doc[i].indent = before.indent - 1
               ELSE doc[i].type = "paragraph"

\* When the command is run whenever it can make a step, from some
\* application on it is not applicable.
RepeatedDedentEnds == <>[](last.op = "dedent" /\ ~last.ok)

\* Dedent(true) has turned the block of the cursor, an item at indent 0
\* after earlier applications, into a paragraph.
C36_Witness ==
  /\ last.op = "dedent" /\ last.ok /\ last.arg
  /\ last.before.op = "dedent"
  /\ last.before.pre[last.from].indent = 1
  /\ last.pre[last.from].indent = 0
  /\ isFlatListNode(last.pre[last.from])
  /\ doc[last.from].type = "paragraph"


-----------------------------------------------------------------------------
(* Claims about what Indent and Dedent leave alone                         *)

\* Block j is as it was before the command, but for the counter, which the
\* postprocessor's transaction rewrites.
Kept(j) == [doc[j] EXCEPT !.counter = last.pre[j].counter] = last.pre[j]

\* Block j differs from what it was in its indent only, by the given amount.
Shifted(j, by) ==
  /\ isFlatListNode(last.pre[j])
  /\ [doc[j] EXCEPT !.counter = last.pre[j].counter]
       = [last.pre[j] EXCEPT !.indent = last.pre[j].indent + by]

\* C37: Indent and Dedent keep the number, the order and the content of
\* the blocks and change indents only, and for Dedent(true) the type of the
\* items it converts.  Indent changes no block outside the selection.
\* Dedent changes no block before the selection and no block of the
\* selection that is not a list item; after the selection it changes only
\* list items that follow the last selected block, itself a list item, in
\* an unbroken row of list items deeper than it was.
C37_TabFrame ==
  /\ last.op \in {"indent", "dedent"} => Len(doc) = Len(last.pre)
  /\ last.op = "indent" =>
       \A j \in 1..Len(doc) :
         \/ Kept(j)
         \/ j \in last.from..last.to /\ Shifted(j, 1)
  /\ last.op = "dedent" =>
       \A j \in 1..Len(doc) :
         \/ Kept(j)
         \/ /\ j \in last.from..last.to
            /\ \/ Shifted(j, -1)
               \/ /\ last.arg
                  /\ isFlatListNode(last.pre[j]) /\ last.pre[j].indent = 0
                  /\ doc[j].type = "paragraph"
                  /\ doc[j].content = last.pre[j].content
         \/ /\ j > last.to
            /\ Shifted(j, -1)
            /\ isFlatListNode(last.pre[last.to])
            /\ \A m \in (last.to + 1)..j :
                 /\ isFlatListNode(last.pre[m])
                 /\ last.pre[m].indent > last.pre[last.to].indent

\* Dedent(true) on the second and third of four blocks, items at indents
\* 1, 0, 0, 0, has converted the two selected items to paragraphs with
\* their text and left the first and the fourth block alone.
C37_Witness ==
  /\ last.op = "dedent" /\ last.ok /\ last.arg
  /\ last.from = 2 /\ last.to = 3
  /\ Indents(last.pre) = <<1, 0, 0, 0>>
  /\ Indents(doc) = <<1, -1, -1, 0>>
  /\ \A j \in 1..4 : doc[j].content = <<j>>


-----------------------------------------------------------------------------
(* Claims about the type of an imported li                                  *)

\* C38: an imported li whose parent is an ol is ordered, with or without
\* the task marker on the ol; any other li whose parent has the task marker
\* attribute with the value "" or "true" is task; every other li is
\* unordered.  The Folder's test names an ol ordered, a ul with the marker
\* task, any other ul unordered and any other element no list, so on every
\* ol and ul it names the type the li inside is imported with.
C38_LiType ==
  last.op = "classify" =>
    LET type == doc[1].type
        inOl == slice.present /\ slice.tag = "OL"
        marked == /\ slice.present /\ slice.marker.present
                  /\ slice.marker.text \in {<<>>, <<"t", "r", "u", "e">>}
        test == last.arg
    IN /\ inOl => type = "ordered"
       /\ (~inOl /\ marked) => type = "task"
       /\ (~inOl /\ ~marked) => type = "unordered"
       /\ slice.present =>
            test = (CASE slice.tag = "OL" -> "ordered"
                      [] slice.tag = "UL" /\ marked -> "task"
                      [] slice.tag = "UL" /\ ~marked -> "unordered"
                      [] OTHER -> "none")
       /\ (slice.present /\ slice.tag \in {"OL", "UL"}) => test = type

\* An li inside an ol that has data-task-list="true" has been imported as
\* an ordered item.
C38_Witness ==
  /\ last.op = "classify"
  /\ slice.present /\ slice.tag = "OL"
  /\ slice.marker = [present |-> TRUE, text |-> <<"t", "r", "u", "e">>]
  /\ doc[1].type = "ordered"

=============================================================================
